---- MODULE Spec2Model ----
(***************************************************************************)
(* Model of the local photo store (IndexedDB "PhotoGalleryDB"), the album  *)
(* membership index (localStorage "album_photos") and the usePhotos        *)
(* gallery facade of src/src/hooks/useAlbums.tsx and                       *)
(* src/src/hooks/useAlbumPhotos.tsx.                                       *)
(*                                                                         *)
(* The module holds one specification per part of the program:            *)
(*   SpecStore  the store operations savePhotoDB / deletePhotoDB /         *)
(*              clearPhotosDB / getPhotoCount / loadPhotosFromDB /         *)
(*              loadPhotosPaginated called one after another;              *)
(*   SpecPage   a reader walking a fixed store page by page;               *)
(*   SpecAlbum  the album index operations;                                *)
(*   Spec       the usePhotos hook (mount effect, loadMore, observer);     *)
(*   SpecGallery the hook's mutating operations (uploadPhoto, deletePhoto, *)
(*              clearAllPhotos, hardReset) next to loadMore;               *)
(*   SpecUpload uploadPhoto and uploadMultiplePhotos over every kind of    *)
(*              file;                                                      *)
(*   SpecOpen   initDB called by several callers;                          *)
(*   SpecFlow   the album page's delete handlers (src/unnamed/part_002);   *)
(*   SpecGalleryFair  SpecGallery with fair continuations (liveness);      *)
(*   SpecAlbums the albums page deleting albums (Albums.tsx);              *)
(*   SpecSerial the hook used one operation at a time;                     *)
(*   SpecEarly  loadMore triggered during the initial load;                *)
(*   SpecTwo    two usePhotos instances over the one store;                *)
(*   SpecFlat   the localStorage photo hook (usePhotos.tsx).               *)
(*                                                                         *)
(* An object store is a sequence of records in ascending key order, which  *)
(* is the order IDBObjectStore.getAll() returns them in.  A photo's date   *)
(* (an ISO-8601 string written by toISOString) is represented by the       *)
(* millisecond time new Date(date).getTime() reads back from it.           *)
(***************************************************************************)
EXTENDS Integers, Sequences, FiniteSets, TLC

VARIABLES
    idbOk,          \* environment: indexedDB.open succeeds (FALSE: access denied)
    db,             \* module-level cached handle, useAlbums.tsx:172 (FALSE = null)
    photos,         \* object store 'photos', records [id, date], ascending id
    thumbs,         \* object store 'thumbnails', records [photoId, data]
    lastOp,         \* the last store or index call and its outcome
    tick,           \* flips on every call, so that a call is always a step
    pgLimit,        \* SpecPage: the page size L of the walk (0: not started)
    pgOffset,       \* SpecPage: offset of the next loadPhotosPaginated call
    pgAcc,          \* SpecPage: concatenation of the pages returned so far
    pgDone,         \* SpecPage: an empty page has been returned
    lsAlbumPhotos,  \* localStorage item 'album_photos': [present, text]
    lastAlbumOp,    \* the last album index call (the list and time of an
                    \* add are recorded when its write was persisted)
    uploadedPhotos, \* usePhotos state: the accumulated in-memory list
    totalCount,     \* usePhotos state
    currentPage,    \* usePhotos state
    isLoading,      \* usePhotos state
    hasMore,        \* usePhotos state
    error,          \* usePhotos state ("null" or a message)
    isInitialized,  \* usePhotos state
    loadingRef,     \* usePhotos ref: loadingRef.current
    view,           \* the state values the latest render's closures captured
    observer,       \* the closure the IntersectionObserver callback captured
    initPc,         \* position of the mount effect's init()
    initCount,      \* init(): the local `count`
    lmTasks,        \* the loadMore calls past their guard and not yet finished
    nCalls,         \* number of loadMore invocations so far
    inOrder,        \* every invocation so far was made after initialization,
                    \* with no load in flight, through the current render
    trigSince,      \* invocations made while the oldest load was in flight
    clock,          \* the millisecond Date.now() reads at the next upload
    ulTasks,        \* the uploadPhoto calls past their size check, not yet settled
    batch,          \* the uploadMultiplePhotos call (one at a time)
    opTasks,        \* deletePhoto / clearAllPhotos / hardReset calls at their await
    lastCall,       \* the facade call that settled last, and how
    nOps,           \* number of facade calls made so far (loadMore excepted)
    reloadPending,  \* hardReset has scheduled window.location.reload()
    dbConn,         \* SpecOpen: the connection `db` holds (0: null)
    openReqs,       \* SpecOpen: the indexedDB.open requests that are pending
    nOpens,         \* SpecOpen: number of indexedDB.open calls issued so far
    received,       \* SpecOpen: what each settled initDB call got, in order
    flow,           \* SpecFlow: the album page's delete handler in progress
    albums,         \* useAlbumsLocal state: the album ids, in list order
    albumsView,     \* the albums captured by the latest render of the albums page
    lsAlbums,       \* localStorage item 'local_albums': [present, text]
    peer,           \* SpecTwo: the state of a second usePhotos instance
    flat            \* SpecFlat: the localStorage photo hook (usePhotos.tsx)

storeVars == <<idbOk, db, photos, thumbs>>
opVars    == <<lastOp, tick>>
pageVars  == <<pgLimit, pgOffset, pgAcc, pgDone>>
albumVars == <<lsAlbumPhotos, lastAlbumOp>>
hookVars  == <<uploadedPhotos, totalCount, currentPage, isLoading, hasMore, error,
               isInitialized, loadingRef>>
taskVars  == <<view, observer, initPc, initCount, lmTasks>>
histVars  == <<nCalls, inOrder, trigSince>>
facadeVars == <<hookVars, taskVars, histVars>>
callVars  == <<clock, ulTasks, batch, opTasks, lastCall, nOps, reloadPending>>
openVars  == <<dbConn, openReqs, nOpens, received>>
listVars  == <<albums, albumsView, lsAlbums>>
moreVars  == <<peer, flat>>
flowVars  == <<flow, listVars, moreVars>>
extVars   == <<callVars, openVars, flowVars>>
vars      == <<storeVars, opVars, pageVars, albumVars, facadeVars, extVars>>

----------------------------------------------------------------------------
(* Bounds of the model *)

MaxId    == 2       \* photo ids are 1..MaxId in SpecStore
MaxPageId == 3      \* photo ids are 1..MaxPageId in SpecPage
MaxDate  == 2       \* photo dates are 1..MaxDate
MaxThumb == 1       \* thumbnail payloads are 1..MaxThumb
MaxLimit == 3       \* page sizes walked by SpecPage are 1..MaxLimit
MaxList  == 2       \* addPhotosToAlbum is given lists of up to MaxList ids
MaxStored == 120    \* Spec: the largest number of photos stored before mount
MaxCalls == 3       \* Spec: loadMore is invoked at most MaxCalls times
MaxInFlight == 2    \* Spec: at most MaxInFlight loadMore calls are past the guard

(* `if (thumbnail)`: undefined and '' are falsy, no thumbnail record is added *)
NoThumb  == 0

PhotoIds   == 1..MaxId
Dates      == 1..MaxDate
Thumbnails == NoThumb..MaxThumb

Min(a, b) == IF a < b THEN a ELSE b
Max(a, b) == IF a > b THEN a ELSE b

----------------------------------------------------------------------------
(* IndexedDB object stores *)

(* a record's key: keyPath 'id' in photos, keyPath 'photoId' in thumbnails *)
KeyOf(rec) == IF "id" \in DOMAIN rec THEN rec.id ELSE rec.photoId

HasKey(store, k) == \E i \in 1..Len(store) : KeyOf(store[i]) = k

(* IDBObjectStore.add: ConstraintError when the key exists, else the record *)
(* is placed at its key's position.                                         *)
StoreAdd(store, rec) ==
    IF HasKey(store, KeyOf(rec))
    THEN [ok |-> FALSE, store |-> store]
    ELSE LET n == Cardinality({i \in 1..Len(store) : KeyOf(store[i]) < KeyOf(rec)})
         IN  [ok |-> TRUE,
              store |-> SubSeq(store, 1, n) \o <<rec>> \o SubSeq(store, n + 1, Len(store))]

(* IDBObjectStore.delete: removes the record of that key, succeeds if absent *)
StoreDelete(store, k) == SelectSeq(store, LAMBDA rec : KeyOf(rec) # k)

(* IDBObjectStore.clear *)
StoreClear(store) == <<>>

----------------------------------------------------------------------------
(* useAlbums.tsx: database layer *)

(* initDB: the cached handle if there is one, else indexedDB.open; onsuccess *)
(* caches the handle, onerror rejects and caches nothing.                    *)
initDB(dbv, avail) ==
    IF dbv THEN [resolved |-> TRUE, db |-> dbv]
    ELSE IF avail THEN [resolved |-> TRUE, db |-> TRUE]
    ELSE [resolved |-> FALSE, db |-> FALSE]

(* (a, b) => new Date(b.date).getTime() - new Date(a.date).getTime() *)
compareDateDesc(a, b) == b.date - a.date

(* Array.prototype.sort(compareDateDesc): a stable sort (ECMAScript 2019). *)
(* The element at index i is placed before the one at index j when the     *)
(* comparator puts it first, or calls them equal and i < j.                *)
sortByDateDesc(s) ==
    LET order == SortSeq([k \in 1..Len(s) |-> k],
                    LAMBDA i, j : \/ compareDateDesc(s[i], s[j]) < 0
                                  \/ compareDateDesc(s[i], s[j]) = 0 /\ i < j)
    IN  [k \in 1..Len(s) |-> s[order[k]]]

(* Array.prototype.slice(from, to) with 0 <= from <= to *)
slice(s, from, to) == SubSeq(s, Min(from, Len(s)) + 1, Min(to, Len(s)))

(* A page cut with slice(offset, limit) *)
loadPhotosPaginated_sliceToLimit(dbv, avail, ph, offset, limit) ==
    LET init == initDB(dbv, avail)
    IN  IF ~init.resolved
        THEN [result |-> "resolved", db |-> init.db, value |-> <<>>]
        ELSE [result |-> "resolved", db |-> init.db,
              value |-> slice(sortByDateDesc(ph), offset, limit)]

(* loadPhotosPaginated: getAll, sort, slice(offset, offset + limit); a       *)
(* failed initDB is caught and answered with [].                             *)
loadPhotosPaginated(dbv, avail, ph, offset, limit) ==
    LET init == initDB(dbv, avail)
    IN  IF ~init.resolved
        THEN [result |-> "resolved", db |-> init.db, value |-> <<>>]
        ELSE [result |-> "resolved", db |-> init.db,
              value |-> slice(sortByDateDesc(ph), offset, offset + limit)]

(* getPhotoCount: store.count(); a failed initDB is caught and answered 0 *)
getPhotoCount(dbv, avail, ph) ==
    LET init == initDB(dbv, avail)
    IN  IF ~init.resolved
        THEN [result |-> "resolved", db |-> init.db, value |-> 0]
        ELSE [result |-> "resolved", db |-> init.db, value |-> Len(ph)]

(* loadPhotosFromDB: store.getAll(); a failed initDB is answered with [] *)
loadPhotosFromDB(dbv, avail, ph) ==
    LET init == initDB(dbv, avail)
    IN  IF ~init.resolved
        THEN [result |-> "resolved", db |-> init.db, value |-> <<>>]
        ELSE [result |-> "resolved", db |-> init.db, value |-> ph]

(* A save whose two adds are not one transaction: what a failed add leaves *)
(* behind is kept.                                                          *)
savePhotoDB_separateWrites(dbv, avail, ph, th, photo, thumbnail) ==
    LET init == initDB(dbv, avail)
        pAdd == StoreAdd(ph, photo)
        tAdd == IF thumbnail # NoThumb
                THEN StoreAdd(th, [photoId |-> photo.id, data |-> thumbnail])
                ELSE [ok |-> TRUE, store |-> th]
    IN  IF ~init.resolved
        THEN [result |-> "rejected", db |-> init.db, photos |-> ph, thumbs |-> th]
        ELSE [result |-> IF pAdd.ok /\ tAdd.ok THEN "resolved" ELSE "rejected",
              db |-> init.db, photos |-> pAdd.store, thumbs |-> tAdd.store]

(* savePhotoDB: one readwrite transaction over both stores; photoStore.add, *)
(* then thumbStore.add if a thumbnail was passed.  A failed add aborts the  *)
(* transaction (its error event reaches transaction.onerror: reject) and    *)
(* the abort undoes every write of the transaction; oncomplete resolves.    *)
savePhotoDB(dbv, avail, ph, th, photo, thumbnail) ==
    LET init == initDB(dbv, avail)
        pAdd == StoreAdd(ph, photo)
        tAdd == IF thumbnail # NoThumb
                THEN StoreAdd(th, [photoId |-> photo.id, data |-> thumbnail])
                ELSE [ok |-> TRUE, store |-> th]
    IN  IF ~init.resolved
        THEN [result |-> "rejected", db |-> init.db, photos |-> ph, thumbs |-> th]
        ELSE IF pAdd.ok /\ tAdd.ok
        THEN [result |-> "resolved", db |-> init.db,
              photos |-> pAdd.store, thumbs |-> tAdd.store]
        ELSE [result |-> "rejected", db |-> init.db, photos |-> ph, thumbs |-> th]

(* A delete that removes the thumbnail record only *)
deletePhotoDB_thumbOnly(dbv, avail, ph, th, id) ==
    LET init == initDB(dbv, avail)
    IN  IF ~init.resolved
        THEN [result |-> "rejected", db |-> init.db, photos |-> ph, thumbs |-> th]
        ELSE [result |-> "resolved", db |-> init.db,
              photos |-> ph, thumbs |-> StoreDelete(th, id)]

(* A delete that removes the photo record only *)
deletePhotoDB_photoOnly(dbv, avail, ph, th, id) ==
    LET init == initDB(dbv, avail)
    IN  IF ~init.resolved
        THEN [result |-> "rejected", db |-> init.db, photos |-> ph, thumbs |-> th]
        ELSE [result |-> "resolved", db |-> init.db,
              photos |-> StoreDelete(ph, id), thumbs |-> th]

(* A delete that fails on a key that is not stored *)
deletePhotoDB_strict(dbv, avail, ph, th, id) ==
    LET init == initDB(dbv, avail)
    IN  IF ~init.resolved \/ ~HasKey(ph, id)
        THEN [result |-> "rejected", db |-> init.db, photos |-> ph, thumbs |-> th]
        ELSE [result |-> "resolved", db |-> init.db,
              photos |-> StoreDelete(ph, id),
              thumbs |-> StoreDelete(th, id)]

(* deletePhotoDB: one readwrite transaction, photoStore.delete(id) and *)
(* thumbStore.delete(id); oncomplete resolves.                         *)
deletePhotoDB(dbv, avail, ph, th, id) ==
    LET init == initDB(dbv, avail)
    IN  IF ~init.resolved
        THEN [result |-> "rejected", db |-> init.db, photos |-> ph, thumbs |-> th]
        ELSE [result |-> "resolved", db |-> init.db,
              photos |-> StoreDelete(ph, id),
              thumbs |-> StoreDelete(th, id)]

(* clearPhotosDB: one readwrite transaction clearing both stores *)
clearPhotosDB(dbv, avail, ph, th) ==
    LET init == initDB(dbv, avail)
    IN  IF ~init.resolved
        THEN [result |-> "rejected", db |-> init.db, photos |-> ph, thumbs |-> th]
        ELSE [result |-> "resolved", db |-> init.db,
              photos |-> StoreClear(ph), thumbs |-> StoreClear(th)]

----------------------------------------------------------------------------
(* useAlbumPhotos.tsx: the album index, one localStorage item *)

AlbumIds      == {"A", "B"}     \* album ids (opaque strings)
IndexPhotoIds == {5, 6}         \* photo ids given to the index
Stamps        == {1, 2}         \* values of new Date().toISOString()

(* the lists of photo ids of length 0..MaxList *)
PhotoIdLists == UNION {[1..n -> IndexPhotoIds] : n \in 0..MaxList}

(* JSON.stringify of an AlbumPhoto[]: the text, entry by entry *)
JSONstringify(list) ==
    [i \in 1..Len(list) |-> <<list[i].albumId, list[i].photoId, list[i].addedAt>>]

(* JSON.parse of such a text *)
JSONparse(text) ==
    [i \in 1..Len(text) |->
        [albumId |-> text[i][1], photoId |-> text[i][2], addedAt |-> text[i][3]]]

(* localStorage.getItem(STORAGE_KEY) is null until the first setItem *)
NullItem == [present |-> FALSE, text |-> <<>>]

(* loadAlbumPhotos: the parsed item, [] when there is none *)
loadAlbumPhotos(ls) == IF ls.present THEN JSONparse(ls.text) ELSE <<>>

(* saveAlbumPhotos: setItem; a setItem that throws (quota) is caught and *)
(* logged, the item keeps its value                                       *)
saveAlbumPhotos(ls, albumPhotos, throws) ==
    IF throws THEN ls ELSE [present |-> TRUE, text |-> JSONstringify(albumPhotos)]

(* An add that keeps the album's existing associations *)
addPhotosToAlbum_merge(ls, albumId, photoIds, now, throws) ==
    LET existing  == loadAlbumPhotos(ls)
        newPhotos == [i \in 1..Len(photoIds) |->
                        [albumId |-> albumId, photoId |-> photoIds[i], addedAt |-> now]]
    IN  saveAlbumPhotos(ls, existing \o newPhotos, throws)

(* addPhotosToAlbum: drop the album's associations, append one per given id *)
addPhotosToAlbum(ls, albumId, photoIds, now, throws) ==
    LET existing  == loadAlbumPhotos(ls)
        filtered  == SelectSeq(existing, LAMBDA ap : ap.albumId # albumId)
        newPhotos == [i \in 1..Len(photoIds) |->
                        [albumId |-> albumId, photoId |-> photoIds[i], addedAt |-> now]]
    IN  saveAlbumPhotos(ls, filtered \o newPhotos, throws)

(* getAlbumPhotos: the photo ids of the album's associations, in storage order *)
getAlbumPhotos(ls, albumId) ==
    LET mine == SelectSeq(loadAlbumPhotos(ls), LAMBDA ap : ap.albumId = albumId)
    IN  [i \in 1..Len(mine) |-> mine[i].photoId]

(* removePhotoFromAlbum: drop every association of (albumId, photoId) *)
removePhotoFromAlbum(ls, albumId, photoId, throws) ==
    LET existing == loadAlbumPhotos(ls)
        filtered == SelectSeq(existing,
                       LAMBDA ap : ~(ap.albumId = albumId /\ ap.photoId = photoId))
    IN  saveAlbumPhotos(ls, filtered, throws)

(* a removeAllPhotosFromAlbum that empties the whole index *)
removeAllPhotosFromAlbum_everyAlbum(ls, albumId, throws) ==
    saveAlbumPhotos(ls, <<>>, throws)

(* removeAllPhotosFromAlbum: drop every association of the album *)
removeAllPhotosFromAlbum(ls, albumId, throws) ==
    LET existing == loadAlbumPhotos(ls)
        filtered == SelectSeq(existing, LAMBDA ap : ap.albumId # albumId)
    IN  saveAlbumPhotos(ls, filtered, throws)

(* useAlbumPhotos.getPhotoCount(albumId) *)
getAlbumPhotoCount(ls, albumId) == Len(getAlbumPhotos(ls, albumId))

NoAlbumOp == [op |-> "none", albumId |-> "A", photoId |-> 0, photoIds |-> <<>>,
              now |-> 0, persisted |-> FALSE, hadOther |-> FALSE]

AlbumInit == lsAlbumPhotos = NullItem /\ lastAlbumOp = NoAlbumOp

----------------------------------------------------------------------------
(* useAlbums.tsx: the usePhotos hook *)

PAGE_SIZE == 50

(* the values of useState/useRef at the first render *)
HookInit ==
    /\ uploadedPhotos = <<>>
    /\ totalCount = 0
    /\ currentPage = 0
    /\ isLoading = FALSE
    /\ hasMore = TRUE
    /\ error = "null"
    /\ isInitialized = FALSE
    /\ loadingRef = FALSE
    /\ view = [currentPage |-> 0, totalCount |-> 0, hasMore |-> TRUE,
               isLoading |-> FALSE, uploadedPhotos |-> <<>>]
    /\ observer = [attached |-> FALSE, currentPage |-> 0, totalCount |-> 0,
                   hasMore |-> TRUE, isLoading |-> FALSE]
    /\ initPc = "mount"
    /\ initCount = 0
    /\ lmTasks = <<>>
    /\ nCalls = 0
    /\ inOrder = TRUE
    /\ trigSince = 0

(* no facade call has been made: nothing in flight, nothing settled *)
NoBatch == [pc |-> "idle", files |-> <<>>, i |-> 0, results |-> <<>>]

NoCall == [op |-> "none", result |-> "none",
           message |-> [text |-> "null", size |-> 0, limit |-> 0],
           failed |-> FALSE, id |-> 0, file |-> "", value |-> <<>>]

CallInit ==
    /\ clock = MaxStored + 1
    /\ ulTasks = <<>>
    /\ batch = NoBatch
    /\ opTasks = <<>>
    /\ lastCall = NoCall
    /\ nOps = 0
    /\ reloadPending = FALSE

(* no initDB call has been made *)
OpenInit == dbConn = 0 /\ openReqs = <<>> /\ nOpens = 0 /\ received = <<>>

(* the album page has run no delete handler *)
NoFlow == [pc |-> "idle", kind |-> "none", albumId |-> "A", photoId |-> 0,
           rest |-> <<>>, list |-> <<>>, deleted |-> <<>>, scrubbed |-> <<>>,
           written |-> TRUE, toast |-> "none"]

FlowInit == flow = NoFlow

(* useAlbumsLocal over an empty 'local_albums' item *)
ListInit == albums = <<>> /\ albumsView = <<>> /\ lsAlbums = NullItem

(* a second usePhotos instance at its first render *)
NoPeer == [initPc |-> "mount", initCount |-> 0, uploadedPhotos |-> <<>>,
           totalCount |-> 0, currentPage |-> 0, hasMore |-> TRUE,
           error |-> "null", isInitialized |-> FALSE]

(* the localStorage photo hook over an empty 'uploaded_photos' item *)
NoFlat == [stored |-> NullItem, uploadedPhotos |-> <<>>, view |-> <<>>,
           tasks |-> <<>>, calls |-> 0, clock |-> 2, before |-> {},
           resolved |-> <<>>, failed |-> FALSE, written |-> TRUE]

MoreInit == peer = NoPeer /\ flat = NoFlat

ExtInit == CallInit /\ OpenInit /\ FlowInit /\ ListInit /\ MoreInit

----------------------------------------------------------------------------
(* SpecStore: the store operations, called one after another *)

NoOp == [op |-> "none", id |-> 0, date |-> 0, thumb |-> NoThumb,
         result |-> "none", existed |-> FALSE, again |-> FALSE, value |-> 0]

StoreInit ==
    /\ idbOk \in BOOLEAN
    /\ db = FALSE
    /\ photos = <<>>
    /\ thumbs = <<>>

OpInit == lastOp = NoOp /\ tick = FALSE

PageIdle == pgLimit = 0 /\ pgOffset = 0 /\ pgAcc = <<>> /\ pgDone = FALSE

(* the call repeats the previous call: same operation, same id, and the *)
(* previous call resolved                                               *)
Again(op, id) == lastOp.op = op /\ lastOp.id = id /\ lastOp.result = "resolved"

(* the thumbnail payload stored for id, NoThumb if there is none *)
ThumbOf(th, id) ==
    IF HasKey(th, id)
    THEN (CHOOSE rec \in {th[i] : i \in 1..Len(th)} : rec.photoId = id).data
    ELSE NoThumb

SavePhoto ==
    \E id \in PhotoIds, d \in Dates, t \in Thumbnails :
        LET r == savePhotoDB(db, idbOk, photos, thumbs, [id |-> id, date |-> d], t)
        IN  /\ db' = r.db /\ photos' = r.photos /\ thumbs' = r.thumbs
            /\ lastOp' = [op |-> "save", id |-> id, date |-> d, thumb |-> t,
                          result |-> r.result,
                          existed |-> HasKey(photos, id),
                          again |-> Again("save", id), value |-> 0]
            /\ tick' = ~tick
            /\ UNCHANGED <<extVars, idbOk, pageVars, albumVars, facadeVars>>

DeletePhoto ==
    \E id \in PhotoIds :
        LET r == deletePhotoDB(db, idbOk, photos, thumbs, id)
        IN  /\ db' = r.db /\ photos' = r.photos /\ thumbs' = r.thumbs
            /\ lastOp' = [op |-> "delete", id |-> id, date |-> 0,
                          thumb |-> ThumbOf(thumbs, id),
                          result |-> r.result,
                          existed |-> HasKey(photos, id),
                          again |-> Again("delete", id),
                          value |-> IF Again("delete", id) /\ lastOp.existed
                                    THEN 1 ELSE 0]
            /\ tick' = ~tick
            /\ UNCHANGED <<extVars, idbOk, pageVars, albumVars, facadeVars>>

ClearPhotos ==
    LET r == clearPhotosDB(db, idbOk, photos, thumbs)
    IN  /\ db' = r.db /\ photos' = r.photos /\ thumbs' = r.thumbs
        /\ lastOp' = [NoOp EXCEPT !.op = "clear", !.result = r.result,
                                  !.again = Again("clear", 0)]
        /\ tick' = ~tick
        /\ UNCHANGED <<extVars, idbOk, pageVars, albumVars, facadeVars>>

CountPhotos ==
    LET r == getPhotoCount(db, idbOk, photos)
    IN  /\ db' = r.db
        /\ lastOp' = [NoOp EXCEPT !.op = "count", !.result = r.result,
                                  !.again = Again("count", 0), !.value = r.value]
        /\ tick' = ~tick
        /\ UNCHANGED <<extVars, idbOk, photos, thumbs, pageVars, albumVars, facadeVars>>

LoadAll ==
    LET r == loadPhotosFromDB(db, idbOk, photos)
    IN  /\ db' = r.db
        /\ lastOp' = [NoOp EXCEPT !.op = "loadAll", !.result = r.result,
                                  !.again = Again("loadAll", 0), !.value = Len(r.value)]
        /\ tick' = ~tick
        /\ UNCHANGED <<extVars, idbOk, photos, thumbs, pageVars, albumVars, facadeVars>>

LoadPage ==
    \E offset \in 0..MaxId, limit \in 1..MaxLimit :
        LET r == loadPhotosPaginated(db, idbOk, photos, offset, limit)
        IN  /\ db' = r.db
            /\ lastOp' = [NoOp EXCEPT !.op = "loadPage", !.result = r.result,
                                      !.again = Again("loadPage", 0),
                                      !.value = Len(r.value)]
            /\ tick' = ~tick
            /\ UNCHANGED <<extVars, idbOk, photos, thumbs, pageVars, albumVars, facadeVars>>

InitStore == StoreInit /\ OpInit /\ PageIdle /\ AlbumInit /\ HookInit /\ ExtInit

NextStore ==
    \/ SavePhoto
    \/ DeletePhoto
    \/ ClearPhotos
    \/ CountPhotos
    \/ LoadAll
    \/ LoadPage

SpecStore == InitStore /\ [][NextStore]_vars

(* store.count() as getPhotoCount reports it *)
CountNow  == getPhotoCount(db, idbOk, photos).value
CountNext == getPhotoCount(db', idbOk', photos').value

(* C2: savePhotoDB(photo, thumbnail) is all-or-nothing.  A save that       *)
(* resolves leaves the photo record and, when a thumbnail was passed, the  *)
(* thumbnail record keyed by photo.id in the store; a save that rejects    *)
(* (the id is already stored, or the database cannot be opened) leaves the *)
(* photo and thumbnail collections exactly as they were.                   *)
C2_SaveAllOrNothing ==
    [][ (tick' # tick /\ lastOp'.op = "save") =>
          IF lastOp'.result = "resolved"
          THEN /\ \E i \in 1..Len(photos') :
                     photos'[i] = [id |-> lastOp'.id, date |-> lastOp'.date]
               /\ lastOp'.thumb # NoThumb =>
                     ThumbOf(thumbs', lastOp'.id) = lastOp'.thumb
          ELSE photos' = photos /\ thumbs' = thumbs ]_vars

(* a save with a thumbnail was rejected because its id is already stored, *)
(* and the stored photo has no thumbnail                                   *)
C2_Witness ==
    /\ lastOp.op = "save" /\ lastOp.result = "rejected"
    /\ lastOp.existed /\ lastOp.thumb # NoThumb
    /\ HasKey(photos, lastOp.id)
    /\ ~HasKey(thumbs, lastOp.id)

(* C3: the photo count changes by +1 on a successful savePhotoDB, by -1 on *)
(* a deletePhotoDB of a stored id, by 0 on a deletePhotoDB of an id that   *)
(* is not stored, is 0 after a clearPhotosDB, and no other call (a failed  *)
(* write, a count or a load) changes it.                                   *)
C3_CountDelta ==
    [][ tick' # tick =>
          CASE lastOp'.op = "save" /\ lastOp'.result = "resolved" ->
                 CountNext = CountNow + 1
            [] lastOp'.op = "delete" /\ lastOp'.result = "resolved" /\ lastOp'.existed ->
                 CountNext = CountNow - 1
            [] lastOp'.op = "delete" /\ lastOp'.result = "resolved" /\ ~lastOp'.existed ->
                 CountNext = CountNow
            [] lastOp'.op = "clear" /\ lastOp'.result = "resolved" ->
                 CountNext = 0
            [] OTHER -> CountNext = CountNow ]_vars

(* a stored photo was deleted while another stays stored *)
C3_Witness ==
    /\ lastOp.op = "delete" /\ lastOp.result = "resolved" /\ lastOp.existed
    /\ CountNow >= 1

(* C4: deletePhotoDB is idempotent.  With a database that opens, every    *)
(* deletePhotoDB resolves; a deletePhotoDB(id) called right after a       *)
(* deletePhotoDB(id) that resolved resolves too and changes neither       *)
(* collection; deleting an id that is not stored changes nothing.         *)
C4_DeleteIdempotent ==
    [][ (tick' # tick /\ lastOp'.op = "delete") =>
          /\ idbOk => lastOp'.result = "resolved"
          /\ lastOp'.again =>
                lastOp'.result = "resolved" /\ photos' = photos /\ thumbs' = thumbs
          /\ ~lastOp'.existed => photos' = photos /\ thumbs' = thumbs ]_vars

(* the second of two successive deletePhotoDB(id), the first of which *)
(* removed a stored photo                                              *)
C4_Witness ==
    /\ lastOp.op = "delete" /\ lastOp.again /\ lastOp.value = 1
    /\ lastOp.result = "resolved"

(* C5: in every reachable store state every key of the thumbnails        *)
(* collection is a key of the photos collection, and no two thumbnail    *)
(* records have the same key.                                            *)
C5_ThumbsHavePhotos ==
    /\ \A i \in 1..Len(thumbs) : HasKey(photos, thumbs[i].photoId)
    /\ \A i, j \in 1..Len(thumbs) :
          thumbs[i].photoId = thumbs[j].photoId => i = j

(* a photo that had a thumbnail was deleted while another photo keeps its *)
(* thumbnail                                                              *)
C5_Witness ==
    /\ lastOp.op = "delete" /\ lastOp.result = "resolved"
    /\ lastOp.existed /\ lastOp.thumb # NoThumb
    /\ Len(thumbs) >= 1

----------------------------------------------------------------------------
(* SpecAlbum: the album index operations, called one after another *)

(* the associations of one album, as stored *)
EntriesOf(ls, albumId) ==
    SelectSeq(loadAlbumPhotos(ls), LAMBDA ap : ap.albumId = albumId)

(* s with every occurrence of x removed *)
Without(s, x) == SelectSeq(s, LAMBDA y : y # x)

AddPhotosToAlbumCall(albumId, photoIds, now, throws) ==
    /\ lsAlbumPhotos' = addPhotosToAlbum(lsAlbumPhotos, albumId, photoIds, now, throws)
    /\ lastAlbumOp' = [op |-> "add", albumId |-> albumId, photoId |-> 0,
                       photoIds |-> IF throws THEN <<>> ELSE photoIds,
                       now |-> IF throws THEN 0 ELSE now,
                       persisted |-> ~throws,
                       hadOther |-> ~throws /\ \E i \in 1..Len(getAlbumPhotos(lsAlbumPhotos, albumId)) :
                           \A j \in 1..Len(photoIds) :
                               getAlbumPhotos(lsAlbumPhotos, albumId)[i] # photoIds[j]]
    /\ UNCHANGED <<extVars, storeVars, opVars, pageVars, facadeVars>>

AddPhotosToAlbum ==
    \E albumId \in AlbumIds, photoIds \in PhotoIdLists, now \in Stamps, throws \in BOOLEAN :
        AddPhotosToAlbumCall(albumId, photoIds, now, throws)

RemovePhotoFromAlbumCall(albumId, photoId, throws) ==
    /\ lsAlbumPhotos' = removePhotoFromAlbum(lsAlbumPhotos, albumId, photoId, throws)
    /\ lastAlbumOp' = [op |-> "remove", albumId |-> albumId, photoId |-> photoId,
                       photoIds |-> <<>>, now |-> 0, persisted |-> ~throws,
                       hadOther |-> Len(Without(getAlbumPhotos(lsAlbumPhotos, albumId),
                                                photoId)) > 0]
    /\ UNCHANGED <<extVars, storeVars, opVars, pageVars, facadeVars>>

RemovePhotoFromAlbum ==
    \E albumId \in AlbumIds, photoId \in IndexPhotoIds, throws \in BOOLEAN :
        RemovePhotoFromAlbumCall(albumId, photoId, throws)

RemoveAllPhotosFromAlbumCall(albumId, throws) ==
    /\ lsAlbumPhotos' = removeAllPhotosFromAlbum(lsAlbumPhotos, albumId, throws)
    /\ lastAlbumOp' = [op |-> "removeAll", albumId |-> albumId, photoId |-> 0,
                       photoIds |-> <<>>, now |-> 0, persisted |-> ~throws,
                       hadOther |-> getAlbumPhotoCount(lsAlbumPhotos, albumId) > 0]
    /\ UNCHANGED <<extVars, storeVars, opVars, pageVars, facadeVars>>

RemoveAllPhotosFromAlbum ==
    \E albumId \in AlbumIds, throws \in BOOLEAN :
        RemoveAllPhotosFromAlbumCall(albumId, throws)

InitAlbum ==
    /\ idbOk = TRUE /\ db = FALSE /\ photos = <<>> /\ thumbs = <<>>
    /\ OpInit /\ PageIdle /\ AlbumInit /\ HookInit /\ ExtInit

NextAlbum ==
    \/ AddPhotosToAlbum
    \/ RemovePhotoFromAlbum
    \/ RemoveAllPhotosFromAlbum

SpecAlbum == InitAlbum /\ [][NextAlbum]_vars

(* C6: the persisted association list never holds two entries with the *)
(* same (albumId, photoId) pair.                                        *)
C6_NoDuplicatePairs ==
    LET all == loadAlbumPhotos(lsAlbumPhotos)
    IN  \A i, j \in 1..Len(all) :
          (all[i].albumId = all[j].albumId /\ all[i].photoId = all[j].photoId) => i = j

(* C7: an addPhotosToAlbum(A, L) whose write reaches localStorage leaves  *)
(* album A with exactly the associations of L, in L's order, all stamped  *)
(* with the call's time, and leaves the associations of every other album *)
(* as they were, in content and in order; a write that throws leaves the  *)
(* whole list as it was.                                                  *)
C7_AddIsSetReplace ==
    [][ (albumVars' # albumVars /\ lastAlbumOp'.op = "add") =>
          LET a == lastAlbumOp'.albumId
          IN  IF ~lastAlbumOp'.persisted
              THEN lsAlbumPhotos' = lsAlbumPhotos
              ELSE /\ getAlbumPhotos(lsAlbumPhotos', a) = lastAlbumOp'.photoIds
                   /\ \A i \in 1..Len(EntriesOf(lsAlbumPhotos', a)) :
                         EntriesOf(lsAlbumPhotos', a)[i].addedAt = lastAlbumOp'.now
                   /\ \A b \in AlbumIds \ {a} :
                         EntriesOf(lsAlbumPhotos', b) = EntriesOf(lsAlbumPhotos, b) ]_vars

(* an add was persisted for an album that had an association not in the *)
(* new list, which is gone, while the other album has associations      *)
C7_Witness ==
    /\ lastAlbumOp.op = "add" /\ lastAlbumOp.persisted /\ lastAlbumOp.hadOther
    /\ getAlbumPhotoCount(lsAlbumPhotos, lastAlbumOp.albumId) = 1
    /\ \E b \in AlbumIds \ {lastAlbumOp.albumId} :
          getAlbumPhotoCount(lsAlbumPhotos, b) > 0

(* C8: removePhotoFromAlbum(A, p) removes exactly one association: with  *)
(* (A, p) present the number of persisted associations goes down by      *)
(* exactly 1 and getAlbumPhotos(A) is its previous value without p; with *)
(* (A, p) absent the list is unchanged; other albums are not affected.   *)
C8_RemoveExactlyOne ==
    [][ (albumVars' # albumVars /\ lastAlbumOp'.op = "remove" /\ lastAlbumOp'.persisted) =>
          LET a      == lastAlbumOp'.albumId
              p      == lastAlbumOp'.photoId
              before == loadAlbumPhotos(lsAlbumPhotos)
              after  == loadAlbumPhotos(lsAlbumPhotos')
              had    == \E i \in 1..Len(before) :
                            before[i].albumId = a /\ before[i].photoId = p
          IN  /\ had => Len(after) = Len(before) - 1
              /\ had => getAlbumPhotos(lsAlbumPhotos', a)
                          = Without(getAlbumPhotos(lsAlbumPhotos, a), p)
              /\ ~had => after = before
              /\ \A b \in AlbumIds \ {a} :
                    EntriesOf(lsAlbumPhotos', b) = EntriesOf(lsAlbumPhotos, b) ]_vars

----------------------------------------------------------------------------
(* SpecPage: loadPhotosPaginated(0,L), (L,L), (2L,L), ... over a fixed store, *)
(* until a page comes back empty                                              *)

(* the store holding photo i with date f[i], for the ids i with f[i] > 0 *)
RECURSIVE StoreWithDates(_, _)
StoreWithDates(f, n) ==
    IF n = 0 THEN <<>>
    ELSE StoreWithDates(f, n - 1) \o
         (IF f[n] > 0 THEN <<[id |-> n, date |-> f[n]]>> ELSE <<>>)

InitPage ==
    /\ idbOk \in BOOLEAN
    /\ db = FALSE
    /\ photos \in {StoreWithDates(f, MaxPageId) : f \in [1..MaxPageId -> 0..MaxDate]}
    /\ thumbs = <<>>
    /\ OpInit
    /\ PageIdle
    /\ AlbumInit
    /\ HookInit
    /\ ExtInit

PageStart ==
    /\ pgLimit = 0
    /\ \E limit \in 1..MaxLimit : pgLimit' = limit
    /\ UNCHANGED <<extVars, storeVars, opVars, albumVars, facadeVars, pgOffset, pgAcc, pgDone>>

PageNext ==
    /\ pgLimit > 0 /\ ~pgDone
    /\ LET r == loadPhotosPaginated(db, idbOk, photos, pgOffset, pgLimit)
       IN  /\ db' = r.db
           /\ IF r.value = <<>>
              THEN pgDone' = TRUE /\ UNCHANGED <<extVars, pgOffset, pgAcc>>
              ELSE /\ pgAcc' = pgAcc \o r.value
                   /\ pgOffset' = pgOffset + pgLimit
                   /\ pgDone' = FALSE
    /\ UNCHANGED <<extVars, idbOk, photos, thumbs, opVars, albumVars, facadeVars, pgLimit>>

NextPage == PageStart \/ PageNext

SpecPage == InitPage /\ [][NextPage]_vars

(* s in date-descending order with ties in the order of s: the element at *)
(* position i of s goes behind exactly the elements that are younger, or  *)
(* as old and earlier in s.                                               *)
RankInDateOrder(s, i) ==
    Cardinality({j \in 1..Len(s) :
        \/ s[j].date > s[i].date
        \/ s[j].date = s[i].date /\ j < i})

DateDescStable(s) ==
    [k \in 1..Len(s) |-> s[CHOOSE i \in 1..Len(s) : RankInDateOrder(s, i) = k - 1]]

(* C1: once the walk has met an empty page, the concatenation of its pages  *)
(* is the sequence loadPhotosFromDB returns, ordered by date descending     *)
(* with ties in retrieval order; with a database that opens, every stored   *)
(* photo is in it exactly once.                                             *)
C1_PagesConcatToSortedAll ==
    pgDone =>
      /\ pgAcc = DateDescStable(loadPhotosFromDB(db, idbOk, photos).value)
      /\ idbOk => \A i \in 1..Len(photos) :
            Cardinality({k \in 1..Len(pgAcc) : pgAcc[k] = photos[i]}) = 1
      /\ idbOk => Len(pgAcc) = Len(photos)

(* a finished walk of at least two non-empty pages over photos with a tie *)
(* in date, the last page short                                           *)
C1_Witness ==
    /\ pgDone /\ pgLimit = 2 /\ Len(pgAcc) = 3
    /\ \E i, j \in 1..Len(pgAcc) : i # j /\ pgAcc[i].date = pgAcc[j].date
    /\ \E i, j \in 1..Len(photos) : i < j /\ photos[i].date < photos[j].date

----------------------------------------------------------------------------
(* Spec: the usePhotos hook mounted over a store that already holds photos *)

(* the state values a render hands to the closures it creates *)
Current == [currentPage |-> currentPage, totalCount |-> totalCount,
            hasMore |-> hasMore, isLoading |-> isLoading,
            uploadedPhotos |-> uploadedPhotos]

(* numbers of stored photos tried: around the page boundaries, up to MaxStored *)
StoredCounts == {0, PAGE_SIZE - 1, PAGE_SIZE, PAGE_SIZE + 1, 2 * PAGE_SIZE, MaxStored}

(* n photos as uploadPhoto stores them: id = Date.now() + Math.random() and *)
(* date = new Date().toISOString() grow together; here two photos share     *)
(* each millisecond                                                         *)
UploadedStore(n) == [i \in 1..n |-> [id |-> i, date |-> (i + 1) \div 2]]

UploadedThumbs(n) == [i \in 1..n |-> [photoId |-> i, data |-> MaxThumb]]

Init ==
    /\ idbOk \in BOOLEAN
    /\ db = FALSE
    /\ \E n \in StoredCounts :
          photos = UploadedStore(n) /\ thumbs = UploadedThumbs(n)
    /\ OpInit /\ PageIdle /\ AlbumInit /\ HookInit /\ ExtInit

(* init(), up to its first await: setError(null), getPhotoCount() is called *)
Mount ==
    /\ initPc = "mount"
    /\ initPc' = "count"
    /\ error' = "null"
    /\ UNCHANGED <<extVars, storeVars, opVars, pageVars, albumVars, histVars,
                   uploadedPhotos, totalCount, currentPage, isLoading, hasMore,
                   isInitialized, loadingRef, view, observer, initCount, lmTasks>>

(* init(): getPhotoCount resolves, setTotalCount(count) *)
InitCount ==
    /\ initPc = "count"
    /\ LET r == getPhotoCount(db, idbOk, photos)
       IN  /\ db' = r.db
           /\ totalCount' = r.value
           /\ initCount' = r.value
    /\ initPc' = "page"
    /\ UNCHANGED <<extVars, idbOk, photos, thumbs, opVars, pageVars, albumVars, histVars,
                   uploadedPhotos, currentPage, isLoading, hasMore, error,
                   isInitialized, loadingRef, view, observer, lmTasks>>

(* init(): loadPhotosPaginated(0, PAGE_SIZE) resolves, the first page is set *)
InitLoadPage ==
    /\ initPc = "page"
    /\ LET r == loadPhotosPaginated(db, idbOk, photos, 0, PAGE_SIZE)
       IN  /\ db' = r.db
           /\ uploadedPhotos' = r.value
    /\ currentPage' = 0
    /\ hasMore' = (PAGE_SIZE < initCount)
    /\ isInitialized' = TRUE
    /\ initPc' = "done"
    /\ UNCHANGED <<extVars, idbOk, photos, thumbs, opVars, pageVars, albumVars, histVars,
                   totalCount, isLoading, error, loadingRef, view, observer,
                   initCount, lmTasks>>

(* a re-render: the closures of the hook are created anew over the state *)
Render ==
    /\ view # Current
    /\ view' = Current
    /\ UNCHANGED <<extVars, storeVars, opVars, pageVars, albumVars, hookVars, histVars,
                   observer, initPc, initCount, lmTasks>>

(* setObserverTarget(element) of the latest render: the observer's callback *)
(* captures that render's hasMore, isLoading and loadMore                   *)
SetObserverTarget ==
    /\ observer' = [attached |-> TRUE, currentPage |-> view.currentPage,
                    totalCount |-> view.totalCount, hasMore |-> view.hasMore,
                    isLoading |-> view.isLoading]
    /\ observer' # observer
    /\ UNCHANGED <<extVars, storeVars, opVars, pageVars, albumVars, hookVars, histVars,
                   view, initPc, initCount, lmTasks>>

(* A guard that trusts the captured state alone *)
loadMoreReturnsEarly_stateOnly(ref, c) == ~c.hasMore \/ c.isLoading

(* loadMore: if (loadingRef.current || !hasMore || isLoading) return *)
loadMoreReturnsEarly(ref, c) == ref \/ ~c.hasMore \/ c.isLoading

(* A next page that starts at the current page's offset *)
nextOffset_samePage(c) == c.currentPage * PAGE_SIZE

(* loadMore: nextPage = currentPage + 1; offset = nextPage * PAGE_SIZE *)
nextOffset(c) == (c.currentPage + 1) * PAGE_SIZE

(* loadMore of the render whose state values are c, up to its await *)
LoadMoreWith(c) ==
    /\ nCalls < MaxCalls
    /\ nCalls' = nCalls + 1
    /\ inOrder' = (inOrder /\ initPc = "done" /\ lmTasks = <<>>
                     /\ c.currentPage = currentPage /\ c.totalCount = totalCount
                     /\ c.hasMore = hasMore /\ c.isLoading = isLoading)
    /\ trigSince' = IF lmTasks # <<>> THEN trigSince + 1 ELSE 0
    /\ IF loadMoreReturnsEarly(loadingRef, c)
       THEN UNCHANGED <<extVars, loadingRef, isLoading, lmTasks>>
       ELSE /\ Len(lmTasks) < MaxInFlight
            /\ loadingRef' = TRUE
            /\ isLoading' = TRUE
            /\ lmTasks' = Append(lmTasks,
                  [pc |-> "fetching", nextPage |-> c.currentPage + 1,
                   offset |-> nextOffset(c), totalCount |-> c.totalCount,
                   newPhotos |-> <<>>])
    /\ UNCHANGED <<extVars, storeVars, opVars, pageVars, albumVars,
                   uploadedPhotos, totalCount, currentPage, hasMore, error,
                   isInitialized, view, observer, initPc, initCount>>

(* an explicit loadMore() call, through the latest render *)
LoadMoreCall == LoadMoreWith(view)

(* the IntersectionObserver callback with an intersecting entry:   *)
(* if (entries[0].isIntersecting && hasMore && !isLoading) loadMore() *)
ObserverFires ==
    /\ observer.attached
    /\ observer.hasMore /\ ~observer.isLoading
    /\ LoadMoreWith(observer)

(* loadMore: the getAll of loadPhotosPaginated(offset, PAGE_SIZE) is answered *)
LoadMoreFetch ==
    \E i \in 1..Len(lmTasks) :
        /\ lmTasks[i].pc = "fetching"
        /\ LET r == loadPhotosPaginated(db, idbOk, photos, lmTasks[i].offset, PAGE_SIZE)
           IN  /\ db' = r.db
               /\ lmTasks' = [lmTasks EXCEPT ![i].pc = "fetched",
                                             ![i].newPhotos = r.value]
        /\ UNCHANGED <<extVars, idbOk, photos, thumbs, opVars, pageVars, albumVars, hookVars,
                       histVars, view, observer, initPc, initCount>>

(* loadMore after its await: append the page, advance, recompute hasMore; *)
(* finally setIsLoading(false) and loadingRef.current = false             *)
LoadMoreResume ==
    \E i \in 1..Len(lmTasks) :
        LET t == lmTasks[i]
        IN  /\ t.pc = "fetched"
            /\ IF Len(t.newPhotos) > 0
               THEN /\ uploadedPhotos' = uploadedPhotos \o t.newPhotos
                    /\ currentPage' = t.nextPage
                    /\ hasMore' = (t.offset + PAGE_SIZE < t.totalCount)
               ELSE /\ hasMore' = FALSE
                    /\ UNCHANGED <<extVars, uploadedPhotos, currentPage>>
            /\ isLoading' = FALSE
            /\ loadingRef' = FALSE
            /\ lmTasks' = SubSeq(lmTasks, 1, i - 1) \o SubSeq(lmTasks, i + 1, Len(lmTasks))
            /\ trigSince' = IF Len(lmTasks) = 1 THEN 0 ELSE trigSince
            /\ UNCHANGED <<extVars, storeVars, opVars, pageVars, albumVars, totalCount, error,
                           isInitialized, view, observer, initPc, initCount,
                           nCalls, inOrder>>

Next ==
    \/ Mount
    \/ InitCount
    \/ InitLoadPage
    \/ Render
    \/ SetObserverTarget
    \/ LoadMoreCall
    \/ ObserverFires
    \/ LoadMoreFetch
    \/ LoadMoreResume

Spec == Init /\ [][Next]_vars

(* C9: at most one page fetch is in flight, and a loadMore invoked while a *)
(* previous one has not finished (by a call or by the observer callback)   *)
(* starts no fetch and changes no state of the hook.                       *)
C9_SingleFetchInFlight ==
    [][ /\ Len(lmTasks') <= 1
        /\ (nCalls' # nCalls /\ lmTasks # <<>>) =>
              (lmTasks' = lmTasks /\ UNCHANGED <<hookVars, storeVars>>) ]_vars

(* loadMore was invoked again, through a closure that still saw hasMore *)
(* and no load, while the first fetch was in flight: one fetch is there  *)
C9_Witness ==
    /\ Len(lmTasks) = 1 /\ trigSince >= 1
    /\ ~view.isLoading /\ view.hasMore
    /\ loadingRef

(* a comes before b in date-descending order, ties in retrieval (key) order *)
SortsBefore(a, b) == a.date > b.date \/ (a.date = b.date /\ a.id < b.id)

(* acc is the first m records of store in that order *)
IsDateOrderPrefix(acc, store, m) ==
    /\ Len(acc) = m
    /\ \A p \in 1..(Len(acc) - 1) : SortsBefore(acc[p], acc[p + 1])
    /\ LET stored == {store[i] : i \in 1..Len(store)}
       IN  \A p \in 1..Len(acc) : acc[p] \in stored
    /\ Len(acc) > 0 =>
          Cardinality({i \in 1..Len(store) :
              store[i] = acc[Len(acc)] \/ SortsBefore(store[i], acc[Len(acc)])}) = Len(acc)

----------------------------------------------------------------------------
(* SpecGallery: the usePhotos hook with its mutating operations             *)
(* (uploadPhoto, uploadMultiplePhotos, deletePhoto, clearAllPhotos,         *)
(* hardReset) next to the mount effect and loadMore                         *)

MaxOps     == 2     \* facade calls made in one behaviour (loadMore excepted)
MaxPending == 1     \* facade calls that may be in flight together
MaxLoads   == 1     \* loadMore calls made in one behaviour of SpecGallery
MaxBatch   == 2     \* uploadMultiplePhotos is given up to MaxBatch files

MiB == 1048576      \* 1024 * 1024, useAlbums.tsx:506
MaxFileMB == 500    \* useAlbums.tsx:508

(* Files handed to uploadPhoto: a name, a size in bytes, and what the       *)
(* browser makes of the content: FileReader reads it, Image decodes it,     *)
(* generateThumbnail gets a canvas for it                                   *)
File(name, size, readable, image, canvas) ==
    [name |-> name, size |-> size, readable |-> readable, image |-> image,
     canvas |-> canvas]

Files ==
    { File("small.jpg", MiB, TRUE, TRUE, TRUE),
      File("limit.jpg", MaxFileMB * MiB, TRUE, TRUE, TRUE),
      File("over.jpg", MaxFileMB * MiB + 1, TRUE, TRUE, TRUE),
      File("huge.jpg", 600 * MiB, TRUE, TRUE, TRUE),
      File("unreadable.jpg", MiB, FALSE, TRUE, TRUE),
      File("notes.txt", MiB, TRUE, FALSE, TRUE),
      File("nocanvas.jpg", MiB, TRUE, TRUE, FALSE) }

(* the file lists handed to uploadMultiplePhotos *)
BatchFiles ==
    { f \in Files : f.name \in {"small.jpg", "huge.jpg", "notes.txt"} }

RECURSIVE SeqsUpTo(_, _)
SeqsUpTo(S, n) ==
    IF n = 0 THEN { <<>> }
    ELSE LET shorter == SeqsUpTo(S, n - 1)
         IN  shorter \cup { Append(q, x) : q \in shorter, x \in S }

FileLists == SeqsUpTo(BatchFiles, MaxBatch)

(* an Error and its message; a size rejection carries the size it names *)
Msg(text) == [text |-> text, size |-> 0, limit |-> 0]

NoError == Msg("null")

(* fileSizeMB.toFixed(2), in hundredths of a MiB *)
toFixed2(bytes) ==
    (bytes \div MiB) * 100 + ((bytes % MiB) * 100 + MiB \div 2) \div MiB

(* const fileSizeMB = file.size / (1024 * 1024); if (fileSizeMB > 500) *)
fileTooLarge_atLimit(file) == file.size >= MaxFileMB * MiB

fileTooLarge(file) == file.size > MaxFileMB * MiB

(* `File size (${fileSizeMB.toFixed(2)}MB) exceeds maximum of 500MB` *)
sizeMessage(file) ==
    [text |-> "File size exceeds maximum", size |-> toFixed2(file.size),
     limit |-> MaxFileMB]

(* The transaction of a write fails for a reason of the platform (quota,    *)
(* I/O): transaction.onerror rejects, nothing is written                    *)
transactionError(dbv, avail, ph, th) ==
    [result |-> "rejected", db |-> initDB(dbv, avail).db, photos |-> ph, thumbs |-> th]

(* the messages of the Errors the database layer rejects with *)
storeMessage(dbv, avail, text) ==
    IF initDB(dbv, avail).resolved THEN Msg(text) ELSE Msg("Failed to open IndexedDB")

(* the record of a settled call *)
Settled(op, result, message, failed, id, file, value) ==
    [op |-> op, result |-> result, message |-> message, failed |-> failed,
     id |-> id, file |-> file, value |-> value]

(* the facade calls that have not settled *)
InFlight == Len(ulTasks) + Len(opTasks)

(* ---- uploadPhoto and uploadMultiplePhotos ---- *)

NoPhoto == [id |-> 0, date |-> 0, alt |-> ""]

(* an uploadPhoto call after reader.readAsDataURL(file) *)
UploadTask(file, owner) ==
    [pc |-> "reading", file |-> file, owner |-> owner, photo |-> NoPhoto]

(* newPhoto: id: Date.now() + Math.random(), date: new Date().toISOString(), *)
(* alt: file.name                                                           *)
newPhoto(file, now) == [id |-> now, date |-> now, alt |-> file.name]

RemoveAt(s, i) == SubSeq(s, 1, i - 1) \o SubSeq(s, i + 1, Len(s))

(* the uploadMultiplePhotos call: its files, the index of the file being *)
(* uploaded (of the failing file once rejected) and the results so far   *)
Batch(pc, files, i, results) ==
    [pc |-> pc, files |-> files, i |-> i, results |-> results]

(* uploadMultiplePhotos at the top of its loop with `results` collected and *)
(* `tasks` the uploads in flight: past the last file it returns results,    *)
(* else it calls uploadPhoto(fileArray[i]), whose size check may reject at  *)
(* once (the catch rethrows: the call rejects)                              *)
uploadMultiplePhotos(files, i, results, tasks) ==
    IF i > Len(files)
    THEN /\ batch' = Batch("resolved", files, i, results)
         /\ ulTasks' = tasks
         /\ lastCall' = Settled("uploadMultiplePhotos", "resolved", NoError, FALSE,
                                0, "", results)
    ELSE IF fileTooLarge(files[i])
    THEN /\ batch' = Batch("rejected", files, i, results)
         /\ ulTasks' = tasks
         /\ lastCall' = Settled("uploadMultiplePhotos", "rejected",
                                sizeMessage(files[i]), FALSE, 0, files[i].name, <<>>)
    ELSE /\ batch' = Batch("running", files, i, results)
         /\ ulTasks' = Append(tasks, UploadTask(files[i], "batch"))
         /\ UNCHANGED lastCall

(* A loop that catches the failure of a file and goes on with the next *)
SettleUpload_continueOnError(i, result, message, failed, photo) ==
    LET t == ulTasks[i]
        rest == RemoveAt(ulTasks, i)
    IN  IF t.owner = "caller"
        THEN /\ ulTasks' = rest
             /\ lastCall' = Settled("uploadPhoto", result, message, failed, photo.id,
                                    t.file.name,
                                    IF result = "resolved" THEN <<photo>> ELSE <<>>)
             /\ UNCHANGED batch
        ELSE uploadMultiplePhotos(batch.files, batch.i + 1,
                                  IF result = "rejected" THEN batch.results
                                  ELSE Append(batch.results, photo), rest)

(* the promise of upload i settles: its caller is told, or the loop of      *)
(* uploadMultiplePhotos goes on (results.push(photo)) or rethrows           *)
SettleUpload(i, result, message, failed, photo) ==
    LET t == ulTasks[i]
        rest == RemoveAt(ulTasks, i)
    IN  IF t.owner = "caller"
        THEN /\ ulTasks' = rest
             /\ lastCall' = Settled("uploadPhoto", result, message, failed, photo.id,
                                    t.file.name,
                                    IF result = "resolved" THEN <<photo>> ELSE <<>>)
             /\ UNCHANGED batch
        ELSE IF result = "rejected"
        THEN /\ ulTasks' = rest
             /\ batch' = Batch("rejected", batch.files, batch.i, batch.results)
             /\ lastCall' = Settled("uploadMultiplePhotos", "rejected", message, failed,
                                    0, t.file.name, <<>>)
        ELSE uploadMultiplePhotos(batch.files, batch.i + 1,
                                  Append(batch.results, photo), rest)

(* uploadPhoto(file) is called: the size check, then reader.readAsDataURL *)
UploadPhotoOf(file) ==
    /\ nOps < MaxOps
    /\ nOps' = nOps + 1
    /\ IF fileTooLarge(file)
       THEN /\ lastCall' = Settled("uploadPhoto", "rejected", sizeMessage(file),
                                   FALSE, 0, file.name, <<>>)
            /\ UNCHANGED ulTasks
       ELSE /\ InFlight < MaxPending
            /\ ulTasks' = Append(ulTasks, UploadTask(file, "caller"))
            /\ UNCHANGED lastCall
    /\ UNCHANGED <<storeVars, opVars, pageVars, albumVars, openVars, flowVars, facadeVars,
                   clock, batch, opTasks, reloadPending>>

UploadPhotoCall == \E file \in Files : UploadPhotoOf(file)

(* uploadMultiplePhotos(files) is called: the loop starts at the first file *)
UploadMultiplePhotosCall ==
    \E files \in FileLists :
        /\ nOps < MaxOps
        /\ nOps' = nOps + 1
        /\ batch.pc # "running"
        /\ InFlight < MaxPending
        /\ uploadMultiplePhotos(files, 1, <<>>, ulTasks)
        /\ UNCHANGED <<storeVars, opVars, pageVars, albumVars, openVars, flowVars, facadeVars,
                       clock, opTasks, reloadPending>>

(* reader.onload (img.src = result) or reader.onerror *)
UploadRead ==
    \E i \in 1..Len(ulTasks) :
        /\ ulTasks[i].pc = "reading"
        /\ IF ulTasks[i].file.readable
           THEN /\ ulTasks' = [ulTasks EXCEPT ![i].pc = "decoding"]
                /\ UNCHANGED <<error, batch, lastCall>>
           ELSE /\ error' = "Failed to read file"
                /\ SettleUpload(i, "rejected", Msg("Failed to read file"), FALSE, NoPhoto)
        /\ UNCHANGED <<storeVars, opVars, pageVars, albumVars, openVars, flowVars, taskVars, histVars,
                       uploadedPhotos, totalCount, currentPage, isLoading, hasMore,
                       isInitialized, loadingRef, clock, opTasks, nOps, reloadPending>>

(* A decode step with no img.onerror: whatever was read goes on *)
UploadDecode_ignoreError ==
    \E i \in 1..Len(ulTasks) :
        /\ ulTasks[i].pc = "decoding"
        /\ ulTasks' = [ulTasks EXCEPT ![i].pc = "thumbnail"]
        /\ UNCHANGED <<storeVars, opVars, pageVars, albumVars, openVars, flowVars, facadeVars,
                       clock, batch, opTasks, lastCall, nOps, reloadPending>>

(* img.onload (generateThumbnail(file) is called) or img.onerror *)
UploadDecode ==
    \E i \in 1..Len(ulTasks) :
        /\ ulTasks[i].pc = "decoding"
        /\ IF ulTasks[i].file.image
           THEN /\ ulTasks' = [ulTasks EXCEPT ![i].pc = "thumbnail"]
                /\ UNCHANGED <<error, batch, lastCall>>
           ELSE /\ error' = "Invalid image file"
                /\ SettleUpload(i, "rejected", Msg("Failed to load image"), FALSE, NoPhoto)
        /\ UNCHANGED <<storeVars, opVars, pageVars, albumVars, openVars, flowVars, taskVars, histVars,
                       uploadedPhotos, totalCount, currentPage, isLoading, hasMore,
                       isInitialized, loadingRef, clock, opTasks, nOps, reloadPending>>

(* generateThumbnail settles: newPhoto is built and savePhotoDB called, or *)
(* the catch does setError(error.message) and rejects                      *)
UploadThumbnail ==
    \E i \in 1..Len(ulTasks) :
        /\ ulTasks[i].pc = "thumbnail"
        /\ IF ulTasks[i].file.canvas
           THEN /\ ulTasks' = [ulTasks EXCEPT ![i].pc = "saving",
                                              ![i].photo = newPhoto(ulTasks[i].file, clock)]
                /\ clock' = clock + 1
                /\ UNCHANGED <<error, batch, lastCall>>
           ELSE /\ error' = "Canvas context failed"
                /\ SettleUpload(i, "rejected", Msg("Canvas context failed"), FALSE, NoPhoto)
                /\ UNCHANGED clock
        /\ UNCHANGED <<storeVars, opVars, pageVars, albumVars, openVars, flowVars, taskVars, histVars,
                       uploadedPhotos, totalCount, currentPage, isLoading, hasMore,
                       isInitialized, loadingRef, opTasks, nOps, reloadPending>>

(* savePhotoDB settles: the new photo is put in front of the list and *)
(* counted, or the catch does setError(error.message) and rejects     *)
UploadSave ==
    \E i \in 1..Len(ulTasks), abort \in BOOLEAN :
        LET t == ulTasks[i]
            r == IF abort THEN transactionError(db, idbOk, photos, thumbs)
                 ELSE savePhotoDB(db, idbOk, photos, thumbs, t.photo, MaxThumb)
            m == storeMessage(db, idbOk, "Failed to save photo - transaction error")
        IN  /\ t.pc = "saving"
            /\ db' = r.db /\ photos' = r.photos /\ thumbs' = r.thumbs
            /\ IF r.result = "resolved"
               THEN /\ uploadedPhotos' = <<t.photo>> \o uploadedPhotos
                    /\ totalCount' = totalCount + 1
                    /\ error' = "null"
                    /\ SettleUpload(i, "resolved", NoError, FALSE, t.photo)
               ELSE /\ error' = m.text
                    /\ SettleUpload(i, "rejected", m, TRUE, NoPhoto)
                    /\ UNCHANGED <<uploadedPhotos, totalCount>>
            /\ UNCHANGED <<idbOk, opVars, pageVars, albumVars, openVars, flowVars, taskVars, histVars,
                           currentPage, isLoading, hasMore, isInitialized, loadingRef,
                           clock, opTasks, nOps, reloadPending>>

(* ---- deletePhoto, clearAllPhotos, hardReset ---- *)

(* the ids deletePhoto is called with: the oldest stored photo (on the    *)
(* second page of a store of PAGE_SIZE + 1) and the first photo uploaded *)
(* after mount (not stored before that)                                  *)
DeleteIds == {1, MaxStored + 1}

(* uploadedPhotos.filter((p) => p.id !== id) *)
withoutId(list, id) == SelectSeq(list, LAMBDA p : p.id # id)

(* resetDB: indexedDB.deleteDatabase(DB_NAME).  While a connection is open  *)
(* (the cached handle is never closed) the request stays blocked and        *)
(* neither handler fires; else the platform deletes the database (ok:       *)
(* onsuccess, the cached handle is dropped) or refuses (onerror: reject).   *)
resetDB(dbv, ok, ph, th) ==
    IF dbv THEN [result |-> "pending", db |-> dbv, photos |-> ph, thumbs |-> th]
    ELSE IF ok THEN [result |-> "resolved", db |-> FALSE,
                        photos |-> <<>>, thumbs |-> <<>>]
    ELSE [result |-> "rejected", db |-> FALSE, photos |-> ph, thumbs |-> th]

(* a call at its await; deletePhoto holds the list its render captured *)
OpTask(op, id, list) == [op |-> op, id |-> id, list |-> list]

(* deletePhoto(id) of the latest render is called: await deletePhotoDB(id) *)
DeletePhotoOf(id) ==
    /\ nOps < MaxOps
    /\ InFlight < MaxPending
    /\ nOps' = nOps + 1
    /\ opTasks' = Append(opTasks, OpTask("deletePhoto", id, view.uploadedPhotos))
    /\ UNCHANGED <<storeVars, opVars, pageVars, albumVars, openVars, flowVars, facadeVars,
                   clock, ulTasks, batch, lastCall, reloadPending>>

DeletePhotoCall == \E id \in DeleteIds : DeletePhotoOf(id)

(* A deletePhoto that takes the photo off the list and the count whatever *)
(* deletePhotoDB answers                                                  *)
DeletePhotoDone_optimistic ==
    \E i \in 1..Len(opTasks), abort \in BOOLEAN :
        LET t == opTasks[i]
            r == IF abort THEN transactionError(db, idbOk, photos, thumbs)
                 ELSE deletePhotoDB(db, idbOk, photos, thumbs, t.id)
            m == storeMessage(db, idbOk, "Failed to delete photo")
        IN  /\ t.op = "deletePhoto"
            /\ db' = r.db /\ photos' = r.photos /\ thumbs' = r.thumbs
            /\ uploadedPhotos' = withoutId(t.list, t.id)
            /\ totalCount' = totalCount - 1
            /\ IF r.result = "resolved"
               THEN /\ error' = "null"
                    /\ lastCall' = Settled("deletePhoto", "resolved", NoError, FALSE,
                                           t.id, "", <<>>)
               ELSE /\ error' = m.text
                    /\ lastCall' = Settled("deletePhoto", "rejected", m, TRUE,
                                           t.id, "", <<>>)
            /\ opTasks' = RemoveAt(opTasks, i)
            /\ UNCHANGED <<idbOk, opVars, pageVars, albumVars, openVars, flowVars, taskVars,
                           histVars, currentPage, isLoading, hasMore, isInitialized,
                           loadingRef, clock, ulTasks, batch, nOps, reloadPending>>

(* deletePhotoDB settles: the captured list without the photo is set and     *)
(* the count decremented, or the catch does setError and rethrows            *)
DeletePhotoDone ==
    \E i \in 1..Len(opTasks), abort \in BOOLEAN :
        LET t == opTasks[i]
            r == IF abort THEN transactionError(db, idbOk, photos, thumbs)
                 ELSE deletePhotoDB(db, idbOk, photos, thumbs, t.id)
            m == storeMessage(db, idbOk, "Failed to delete photo")
        IN  /\ t.op = "deletePhoto"
            /\ db' = r.db /\ photos' = r.photos /\ thumbs' = r.thumbs
            /\ IF r.result = "resolved"
               THEN /\ uploadedPhotos' = withoutId(t.list, t.id)
                    /\ totalCount' = totalCount - 1
                    /\ error' = "null"
                    /\ lastCall' = Settled("deletePhoto", "resolved", NoError, FALSE,
                                           t.id, "", <<>>)
               ELSE /\ error' = m.text
                    /\ lastCall' = Settled("deletePhoto", "rejected", m, TRUE,
                                           t.id, "", <<>>)
                    /\ UNCHANGED <<uploadedPhotos, totalCount>>
            /\ opTasks' = RemoveAt(opTasks, i)
            /\ UNCHANGED <<idbOk, opVars, pageVars, albumVars, openVars, flowVars, taskVars, histVars,
                           currentPage, isLoading, hasMore, isInitialized, loadingRef,
                           clock, ulTasks, batch, nOps, reloadPending>>

(* clearAllPhotos() is called: await clearPhotosDB() *)
ClearAllPhotosCall ==
    /\ nOps < MaxOps
    /\ InFlight < MaxPending
    /\ nOps' = nOps + 1
    /\ opTasks' = Append(opTasks, OpTask("clearAllPhotos", 0, <<>>))
    /\ UNCHANGED <<storeVars, opVars, pageVars, albumVars, openVars, flowVars, facadeVars,
                   clock, ulTasks, batch, lastCall, reloadPending>>

(* clearPhotosDB settles: list, count and cursor are reset and hasMore set *)
(* to true, or the catch does setError and rethrows                        *)
ClearAllPhotosDone ==
    \E i \in 1..Len(opTasks), abort \in BOOLEAN :
        LET t == opTasks[i]
            r == IF abort THEN transactionError(db, idbOk, photos, thumbs)
                 ELSE clearPhotosDB(db, idbOk, photos, thumbs)
            m == storeMessage(db, idbOk, "Failed to clear photos")
        IN  /\ t.op = "clearAllPhotos"
            /\ db' = r.db /\ photos' = r.photos /\ thumbs' = r.thumbs
            /\ IF r.result = "resolved"
               THEN /\ uploadedPhotos' = <<>>
                    /\ totalCount' = 0
                    /\ currentPage' = 0
                    /\ hasMore' = TRUE
                    /\ error' = "null"
                    /\ lastCall' = Settled("clearAllPhotos", "resolved", NoError, FALSE,
                                           0, "", <<>>)
               ELSE /\ error' = m.text
                    /\ lastCall' = Settled("clearAllPhotos", "rejected", m, TRUE,
                                           0, "", <<>>)
                    /\ UNCHANGED <<uploadedPhotos, totalCount, currentPage, hasMore>>
            /\ opTasks' = RemoveAt(opTasks, i)
            /\ UNCHANGED <<idbOk, opVars, pageVars, albumVars, openVars, flowVars, taskVars, histVars,
                           isLoading, isInitialized, loadingRef,
                           clock, ulTasks, batch, nOps, reloadPending>>

(* hardReset() is called: await resetDB() *)
HardResetCall ==
    /\ nOps < MaxOps
    /\ InFlight < MaxPending
    /\ nOps' = nOps + 1
    /\ opTasks' = Append(opTasks, OpTask("hardReset", 0, <<>>))
    /\ UNCHANGED <<storeVars, opVars, pageVars, albumVars, openVars, flowVars, facadeVars,
                   clock, ulTasks, batch, lastCall, reloadPending>>

(* resetDB settles: the state is reset and a reload scheduled, or the    *)
(* catch does setError('Hard reset failed') and returns (no rethrow)     *)
HardResetDone ==
    \E i \in 1..Len(opTasks), ok \in BOOLEAN :
        LET t == opTasks[i]
            r == resetDB(db, ok, photos, thumbs)
        IN  /\ t.op = "hardReset"
            /\ r.result # "pending"
            /\ db' = r.db /\ photos' = r.photos /\ thumbs' = r.thumbs
            /\ IF r.result = "resolved"
               THEN /\ uploadedPhotos' = <<>>
                    /\ totalCount' = 0
                    /\ currentPage' = 0
                    /\ hasMore' = TRUE
                    /\ error' = "null"
                    /\ isInitialized' = FALSE
                    /\ reloadPending' = TRUE
                    /\ lastCall' = Settled("hardReset", "resolved", NoError, FALSE,
                                           0, "", <<>>)
               ELSE /\ error' = "Hard reset failed"
                    /\ lastCall' = Settled("hardReset", "resolved", NoError, TRUE,
                                           0, "", <<>>)
                    /\ UNCHANGED <<uploadedPhotos, totalCount, currentPage, hasMore,
                                   isInitialized, reloadPending>>
            /\ opTasks' = RemoveAt(opTasks, i)
            /\ UNCHANGED <<idbOk, opVars, pageVars, albumVars, openVars, flowVars, taskVars, histVars,
                           isLoading, loadingRef, clock, ulTasks, batch, nOps>>

(* window.location.reload(): the module is loaded again (db = null), the *)
(* hook is mounted anew and what was in flight is gone                   *)
Reload ==
    /\ reloadPending
    /\ reloadPending' = FALSE
    /\ db' = FALSE
    /\ uploadedPhotos' = <<>>
    /\ totalCount' = 0
    /\ currentPage' = 0
    /\ isLoading' = FALSE
    /\ hasMore' = TRUE
    /\ error' = "null"
    /\ isInitialized' = FALSE
    /\ loadingRef' = FALSE
    /\ view' = [currentPage |-> 0, totalCount |-> 0, hasMore |-> TRUE,
                isLoading |-> FALSE, uploadedPhotos |-> <<>>]
    /\ observer' = [attached |-> FALSE, currentPage |-> 0, totalCount |-> 0,
                    hasMore |-> TRUE, isLoading |-> FALSE]
    /\ initPc' = "mount"
    /\ initCount' = 0
    /\ lmTasks' = <<>>
    /\ ulTasks' = <<>>
    /\ batch' = NoBatch
    /\ opTasks' = <<>>
    /\ UNCHANGED <<idbOk, photos, thumbs, opVars, pageVars, albumVars, openVars, flowVars, histVars,
                   clock, lastCall, nOps>>

(* numbers of photos stored before mount *)
GalleryCounts == {2, PAGE_SIZE + 1}

InitGallery ==
    /\ idbOk \in BOOLEAN
    /\ db = FALSE
    /\ \E n \in GalleryCounts :
          photos = UploadedStore(n) /\ thumbs = UploadedThumbs(n)
    /\ OpInit /\ PageIdle /\ AlbumInit /\ HookInit /\ ExtInit

(* the callers of the facade act on a gallery whose mount effect has run *)
Ready == initPc = "done"

(* the file the gallery's callers upload *)
GalleryFile == File("small.jpg", MiB, TRUE, TRUE, TRUE)

GalleryCall ==
    /\ Ready
    /\ \/ UploadPhotoOf(GalleryFile)
       \/ DeletePhotoCall
       \/ ClearAllPhotosCall
       \/ HardResetCall

(* loadMore() of the latest render, up to MaxLoads times *)
GalleryLoadMore == Ready /\ nCalls < MaxLoads /\ LoadMoreCall

NextGallery ==
    \/ Mount
    \/ InitCount
    \/ InitLoadPage
    \/ Render
    \/ GalleryLoadMore
    \/ LoadMoreFetch
    \/ LoadMoreResume
    \/ GalleryCall
    \/ UploadRead
    \/ UploadDecode
    \/ UploadThumbnail
    \/ UploadSave
    \/ DeletePhotoDone
    \/ ClearAllPhotosDone
    \/ HardResetDone
    \/ Reload

SpecGallery == InitGallery /\ [][NextGallery]_vars

(* C11: once initialization has completed and no load is in flight, hasMore *)
(* equals ((currentPage + 1) * PAGE_SIZE < totalCount), except that it is   *)
(* false after a loadMore whose fetch returned no records: so hasMore true  *)
(* implies the inequality, and hasMore false with the inequality true       *)
(* needs a loadMore to have been called.                                    *)
C11_HasMoreDerived ==
    (initPc = "done" /\ isInitialized /\ lmTasks = <<>>) =>
        LET derived == (currentPage + 1) * PAGE_SIZE < totalCount
        IN  /\ hasMore => derived
            /\ (~hasMore /\ nCalls = 0) => ~derived

(* C16: deletePhoto takes nothing off the in-memory list or totalCount      *)
(* before the durable delete has succeeded: the call itself changes         *)
(* nothing; when deletePhotoDB rejects, the list, totalCount and both       *)
(* collections are as before, the error field is set and deletePhoto        *)
(* rejects; when it resolves the photo is gone from both collections.       *)
C16_NoOptimisticDelete ==
    [][ /\ DeletePhotoCall => UNCHANGED <<storeVars, hookVars>>
        /\ DeletePhotoDone =>
              /\ lastCall'.op = "deletePhoto"
              /\ (\E k \in 1..Len(photos') : photos'[k].id = lastCall'.id) =>
                    UNCHANGED <<uploadedPhotos, totalCount>>
              /\ IF lastCall'.failed
                 THEN /\ lastCall'.result = "rejected"
                      /\ UNCHANGED <<uploadedPhotos, totalCount, photos, thumbs>>
                      /\ error' # "null"
                 ELSE /\ lastCall'.result = "resolved"
                      /\ \A k \in 1..Len(photos') : photos'[k].id # lastCall'.id
                      /\ \A k \in 1..Len(thumbs') : thumbs'[k].photoId # lastCall'.id
      ]_vars

(* deletePhoto(1) has been rejected by a failing transaction over a loaded *)
(* gallery of two photos: photo 1 is still stored, listed and counted      *)
C16_Witness ==
    /\ idbOk
    /\ lastCall.op = "deletePhoto" /\ lastCall.result = "rejected" /\ lastCall.id = 1
    /\ error = "Failed to delete photo"
    /\ Len(uploadedPhotos) = 2 /\ totalCount = 2
    /\ \E k \in 1..Len(uploadedPhotos) : uploadedPhotos[k].id = 1
    /\ \E k \in 1..Len(photos) : photos[k].id = 1

(* C17: when the database cannot be opened the failure is surfaced: once *)
(* the initial load has finished, the error field is not null.           *)
C17_OpenFailureSurfaced ==
    (~idbOk /\ initPc = "done" /\ isInitialized /\ lastCall = NoCall) => error # "null"

(* C18: a facade operation whose store operation failed rejects: the call *)
(* that settled last did not resolve if its store operation failed.       *)
C18_FailureRejects ==
    lastCall.failed => lastCall.result = "rejected"

(* the category of the operation that sets an error message ("any": the *)
(* message of a failed open, which every category can set)              *)
CategoryOfError(text) ==
    IF text \in {"Failed to read file", "Invalid image file", "Canvas context failed",
                 "Failed to save photo - transaction error"} THEN "upload"
    ELSE IF text = "Failed to delete photo" THEN "delete"
    ELSE IF text = "Failed to clear photos" THEN "clear"
    ELSE IF text = "Hard reset failed" THEN "reset"
    ELSE "any"

CategoryOfOp(op) ==
    IF op \in {"uploadPhoto", "uploadMultiplePhotos"} THEN "upload"
    ELSE IF op = "deletePhoto" THEN "delete"
    ELSE IF op = "clearAllPhotos" THEN "clear"
    ELSE "reset"

(* C19: the error field set by a failed operation of one category stays set *)
(* when an operation of another category succeeds.                          *)
C19_ErrorKeptAcrossCategories ==
    [][ ( /\ lastCall' # lastCall
          /\ lastCall'.result = "resolved" /\ ~lastCall'.failed
          /\ error # "null"
          /\ CategoryOfError(error) # "any"
          /\ CategoryOfOp(lastCall'.op) # CategoryOfError(error) )
        => error' = error ]_vars

----------------------------------------------------------------------------
(* SpecUpload: uploadPhoto and uploadMultiplePhotos over every kind of file *)

UploadCall ==
    /\ Ready
    /\ \/ UploadPhotoCall
       \/ UploadMultiplePhotosCall

NextUpload ==
    \/ Mount
    \/ InitCount
    \/ InitLoadPage
    \/ UploadCall
    \/ UploadRead
    \/ UploadDecode
    \/ UploadThumbnail
    \/ UploadSave

SpecUpload == InitGallery /\ [][NextUpload]_vars

(* C13: uploadPhoto of a file larger than 500 MiB is rejected before the    *)
(* file is read: nothing is started, the store, the list, totalCount and    *)
(* the error field keep their values, and the rejection names the file's    *)
(* size and the limit of 500; a file of 500 MiB or less passes the check    *)
(* and is read.                                                             *)
C13_SizeLimit ==
    [][ \A f \in Files :
          UploadPhotoOf(f) =>
            IF f.size > 500 * 1024 * 1024
            THEN /\ UNCHANGED <<storeVars, hookVars, ulTasks, batch, clock>>
                 /\ lastCall'.op = "uploadPhoto"
                 /\ lastCall'.result = "rejected"
                 /\ lastCall'.file = f.name
                 /\ lastCall'.message.size = toFixed2(f.size)
                 /\ lastCall'.message.limit = 500
            ELSE /\ UNCHANGED <<storeVars, hookVars, lastCall>>
                 /\ ulTasks' = Append(ulTasks, [pc |-> "reading", file |-> f,
                                                owner |-> "caller", photo |-> NoPhoto])
      ]_vars

(* huge.jpg (600 MiB) has been rejected with "600.00MB" and the limit, the *)
(* gallery is as it was, and limit.jpg (500 MiB) is being read              *)
C13_Witness ==
    /\ lastCall.op = "uploadPhoto" /\ lastCall.result = "rejected"
    /\ lastCall.file = "huge.jpg"
    /\ lastCall.message.size = 60000 /\ lastCall.message.limit = 500
    /\ Len(photos) = 2 /\ Len(uploadedPhotos) = 2 /\ totalCount = 2
    /\ Len(ulTasks) = 1
    /\ ulTasks[1].file.name = "limit.jpg" /\ ulTasks[1].pc = "reading"

(* C14: uploadMultiplePhotos uploads its files one at a time in input      *)
(* order: at most one of its uploads is in flight, file i is being read     *)
(* only when the photos of files 1..i-1 have been stored and collected in   *)
(* order; at the first file that fails the call rejects with that file's    *)
(* error, no further upload of it exists, and the earlier photos stay       *)
(* stored; on full success the results are one photo per file, in order.    *)
C14_BatchSequential ==
    [][ LET b == batch'
            owned == {k \in 1..Len(ulTasks') : ulTasks'[k].owner = "batch"}
            bad(f) == f.size > 500 * 1024 * 1024 \/ ~f.readable \/ ~f.image \/ ~f.canvas
        IN  /\ Cardinality(owned) <= 1
            /\ \A j \in 1..Len(b.results) :
                  /\ b.results[j].alt = b.files[j].name
                  /\ \E k \in 1..Len(photos') : photos'[k] = b.results[j]
            /\ b.pc = "running" =>
                  /\ Len(b.results) = b.i - 1
                  /\ \E k \in owned : ulTasks'[k].file = b.files[b.i]
            /\ b.pc = "rejected" =>
                  /\ owned = {}
                  /\ b.i \in 1..Len(b.files)
                  /\ Len(b.results) = b.i - 1
                  /\ b # batch =>
                        /\ lastCall'.op = "uploadMultiplePhotos"
                        /\ lastCall'.result = "rejected"
                        /\ lastCall'.file = b.files[b.i].name
                        /\ lastCall'.message # NoError
                        /\ bad(b.files[b.i]) \/ lastCall'.failed
            /\ b.pc = "resolved" =>
                  /\ owned = {}
                  /\ Len(b.results) = Len(b.files)
                  /\ b # batch =>
                        /\ lastCall'.op = "uploadMultiplePhotos"
                        /\ lastCall'.result = "resolved"
                        /\ lastCall'.value = b.results
      ]_vars

(* uploadMultiplePhotos([small.jpg, notes.txt]) has rejected at notes.txt *)
(* with small.jpg's photo stored and nothing of the call in flight        *)
C14_Witness ==
    /\ batch.pc = "rejected" /\ batch.i = 2
    /\ Len(batch.files) = 2
    /\ batch.files[1].name = "small.jpg" /\ batch.files[2].name = "notes.txt"
    /\ Len(batch.results) = 1
    /\ \E k \in 1..Len(photos) : photos[k] = batch.results[1]
    /\ lastCall.op = "uploadMultiplePhotos" /\ lastCall.result = "rejected"
    /\ lastCall.file = "notes.txt"
    /\ ulTasks = <<>>

(* C15: when reading the file, decoding the image or generating the        *)
(* thumbnail fails, savePhotoDB is not called for that upload: no upload of *)
(* such a file is ever at its save or resolves, the steps before the save   *)
(* leave both collections, the list and totalCount as they are, and the     *)
(* failing step rejects the upload.                                         *)
C15_FailedDecodeWritesNothing ==
    [][ LET good(f) == f.readable /\ f.image /\ f.canvas
        IN  /\ \A k \in 1..Len(ulTasks') :
                  ulTasks'[k].pc = "saving" => good(ulTasks'[k].file)
            /\ (lastCall' # lastCall /\ lastCall'.result = "resolved"
                                     /\ lastCall'.op = "uploadPhoto") =>
                  \E f \in Files : f.name = lastCall'.file /\ good(f)
            /\ (UploadRead \/ UploadDecode \/ UploadThumbnail) =>
                  /\ UNCHANGED <<photos, thumbs, uploadedPhotos, totalCount>>
                  /\ lastCall' # lastCall =>
                        /\ lastCall'.result = "rejected"
                        /\ ~lastCall'.failed
                        /\ \E f \in Files : f.name = lastCall'.file /\ ~good(f)
      ]_vars

(* uploadPhoto(notes.txt) has been rejected at img.onerror over a loaded *)
(* gallery of two photos: nothing was written or counted                 *)
C15_Witness ==
    /\ lastCall.op = "uploadPhoto" /\ lastCall.result = "rejected"
    /\ lastCall.file = "notes.txt"
    /\ lastCall.message.text = "Failed to load image"
    /\ error = "Invalid image file"
    /\ Len(photos) = 2 /\ Len(thumbs) = 2
    /\ Len(uploadedPhotos) = 2 /\ totalCount = 2
    /\ ulTasks = <<>>

----------------------------------------------------------------------------
(* SpecOpen: initDB called by several callers, the open requests answered  *)
(* by the platform one at a time.  A connection is named by the number of  *)
(* the open call that made it.                                             *)

MaxInitCalls == 5   \* initDB calls made in one behaviour of SpecOpen

(* what a rejected initDB call is recorded with *)
Rejected == 0 - 1

(* initDB() is called: if (db) resolve(db), else indexedDB.open(...) is *)
(* issued and its handlers installed                                    *)
InitDBCall ==
    /\ Len(received) + Len(openReqs) < MaxInitCalls
    /\ IF db
       THEN /\ received' = Append(received, dbConn)
            /\ UNCHANGED <<openReqs, nOpens>>
       ELSE /\ nOpens' = nOpens + 1
            /\ openReqs' = Append(openReqs, nOpens + 1)
            /\ UNCHANGED received
    /\ UNCHANGED <<storeVars, opVars, pageVars, albumVars, facadeVars, callVars, flowVars, dbConn>>

(* request.onsuccess: db = request.result; resolve(db) *)
OpenSuccess ==
    \E i \in 1..Len(openReqs) :
        /\ idbOk
        /\ db' = TRUE
        /\ dbConn' = openReqs[i]
        /\ received' = Append(received, openReqs[i])
        /\ openReqs' = RemoveAt(openReqs, i)
        /\ UNCHANGED <<idbOk, photos, thumbs, opVars, pageVars, albumVars, facadeVars,
                       callVars, flowVars, nOpens>>

(* request.onerror: reject(new Error('Failed to open IndexedDB')) *)
OpenError ==
    \E i \in 1..Len(openReqs) :
        /\ ~idbOk
        /\ received' = Append(received, Rejected)
        /\ openReqs' = RemoveAt(openReqs, i)
        /\ UNCHANGED <<storeVars, opVars, pageVars, albumVars, facadeVars,
                       callVars, flowVars, dbConn, nOpens>>

InitOpen == InitStore

NextOpen ==
    \/ InitDBCall
    \/ OpenSuccess
    \/ OpenError

SpecOpen == InitOpen /\ [][NextOpen]_vars

(* C12: with a database that opens, concurrent and later initDB calls share *)
(* one indexedDB.open: one open is issued in total and every caller gets    *)
(* the same handle.                                                         *)
C12_OpenIsShared ==
    idbOk => /\ nOpens <= 1
             /\ \A i, j \in 1..Len(received) : received[i] = received[j]

----------------------------------------------------------------------------
(* SpecFlow: the album page's delete handlers (AlbumDetail), which call     *)
(* deletePhoto of the photo hook and then removePhotoFromAlbum of the album *)
(* index.  The page is given the IndexedDB hook's deletePhoto, the one that *)
(* returns a promise the handlers await.                                    *)

MaxFlows   == 2     \* delete handlers run in one behaviour of SpecFlow
FlowStored == 6     \* photos in the store, so that ids 5 and 6 exist

(* selectedPhotos: the ids ticked on the page, in the order they were ticked *)
FlowSelections ==
    {<<p>> : p \in IndexPhotoIds} \cup
    {<<p, q>> : <<p, q>> \in {pq \in IndexPhotoIds \X IndexPhotoIds : pq[1] # pq[2]}}

(* album indexes built by addPhotosToAlbum before the page is opened *)
FlowIndexes ==
    {addPhotosToAlbum(addPhotosToAlbum(NullItem, "A", a, 1, FALSE), "B", b, 2, FALSE) :
        a \in {<<5>>, <<5, 6>>}, b \in {<<>>, <<5>>}}

(* allPhotos of the page: the photos of the hook's list that the album holds *)
shownInAlbum(ls, albumId, list, photoId) ==
    /\ \E i \in 1..Len(getAlbumPhotos(ls, albumId)) :
          getAlbumPhotos(ls, albumId)[i] = photoId
    /\ \E i \in 1..Len(list) : list[i].id = photoId

Flow(pc, kind, albumId, photoId, rest, list, deleted, scrubbed, written, toast) ==
    [pc |-> pc, kind |-> kind, albumId |-> albumId, photoId |-> photoId,
     rest |-> rest, list |-> list, deleted |-> deleted, scrubbed |-> scrubbed,
     written |-> written, toast |-> toast]

(* the handler reaches `await deletePhoto(photoId)`; deletePhoto is the one *)
(* of the render the handler was created in, for every photo of the loop    *)
FlowStart(kind, albumId, selected) ==
    /\ Ready
    /\ flow.pc # "deleting"
    /\ nOps < MaxFlows
    /\ InFlight < MaxPending
    /\ \A k \in 1..Len(selected) :
          shownInAlbum(lsAlbumPhotos, albumId, view.uploadedPhotos, selected[k])
    /\ nOps' = nOps + 1
    /\ opTasks' = Append(opTasks, OpTask("deletePhoto", Head(selected), view.uploadedPhotos))
    /\ flow' = Flow("deleting", kind, albumId, Head(selected), Tail(selected),
                    view.uploadedPhotos, <<>>, <<>>, TRUE, "none")
    /\ UNCHANGED <<storeVars, opVars, pageVars, albumVars, openVars, facadeVars,
                   listVars, moreVars, clock, ulTasks, batch, lastCall, reloadPending>>

HandlePhotoDelete ==
    \E albumId \in AlbumIds, photoId \in IndexPhotoIds :
        FlowStart("single", albumId, <<photoId>>)

HandleDeleteSelected ==
    \E albumId \in AlbumIds, selected \in FlowSelections :
        FlowStart("selected", albumId, selected)

(* the handler resumes after `await deletePhoto(photoId)`: on success it    *)
(* calls removePhotoFromAlbum(album.id, photoId); handlePhotoDelete then    *)
(* toasts success or, in its catch, failure; handleDeleteSelected catches   *)
(* per photo, goes on to the next one and toasts success at the end         *)
FlowResume ==
    \E throws \in BOOLEAN :
        LET ok   == lastCall.result = "resolved"
            more == flow.kind = "selected" /\ flow.rest # <<>>
        IN  /\ flow.pc = "deleting"
            /\ opTasks = <<>>
            /\ lastCall.op = "deletePhoto" /\ lastCall.id = flow.photoId
            /\ ok \/ ~throws
            /\ lsAlbumPhotos' = IF ok
                                THEN removePhotoFromAlbum(lsAlbumPhotos, flow.albumId,
                                                          flow.photoId, throws)
                                ELSE lsAlbumPhotos
            /\ lastAlbumOp' = IF ok
                              THEN [op |-> "remove", albumId |-> flow.albumId,
                                    photoId |-> flow.photoId, photoIds |-> <<>>,
                                    now |-> 0, persisted |-> ~throws,
                                    hadOther |-> Len(Without(getAlbumPhotos(lsAlbumPhotos,
                                                   flow.albumId), flow.photoId)) > 0]
                              ELSE lastAlbumOp
            /\ opTasks' = IF more
                          THEN <<OpTask("deletePhoto", Head(flow.rest), flow.list)>>
                          ELSE <<>>
            /\ flow' = Flow(IF more THEN "deleting" ELSE "done", flow.kind, flow.albumId,
                            IF more THEN Head(flow.rest) ELSE flow.photoId,
                            IF more THEN Tail(flow.rest) ELSE <<>>,
                            flow.list,
                            IF ok THEN Append(flow.deleted, flow.photoId) ELSE flow.deleted,
                            IF ok THEN Append(flow.scrubbed, flow.photoId)
                                  ELSE flow.scrubbed,
                            flow.written /\ (ok => ~throws),
                            IF more THEN "none"
                            ELSE IF flow.kind = "single" /\ ~ok THEN "error"
                            ELSE "success")
            /\ UNCHANGED <<storeVars, opVars, pageVars, openVars, facadeVars,
                           listVars, moreVars, clock, ulTasks, batch, lastCall, nOps,
                           reloadPending>>

InitFlow ==
    /\ idbOk \in BOOLEAN
    /\ db = FALSE
    /\ photos = UploadedStore(FlowStored) /\ thumbs = UploadedThumbs(FlowStored)
    /\ lsAlbumPhotos \in FlowIndexes /\ lastAlbumOp = NoAlbumOp
    /\ OpInit /\ PageIdle /\ HookInit /\ ExtInit

NextFlow ==
    \/ Mount
    \/ InitCount
    \/ InitLoadPage
    \/ Render
    \/ HandlePhotoDelete
    \/ HandleDeleteSelected
    \/ DeletePhotoDone
    \/ FlowResume

SpecFlow == InitFlow /\ [][NextFlow]_vars

(* the scrub of a photo has run only for photos whose deletePhoto resolved, *)
(* and such a photo is gone from the store                                  *)
C20_ScrubOnlyAfterDelete ==
    \A k \in 1..Len(flow.scrubbed) :
        /\ \E j \in 1..Len(flow.deleted) : flow.deleted[j] = flow.scrubbed[k]
        /\ \A i \in 1..Len(photos) : photos[i].id # flow.scrubbed[k]

(* once a handler has finished with its success toast and every write of   *)
(* the index went through, no album holds a photo the handler deleted      *)
C20_NoAssociationLeft ==
    (flow.pc = "done" /\ flow.toast = "success" /\ flow.written) =>
        \A j \in 1..Len(flow.deleted) :
            \A albumId \in AlbumIds :
                \A i \in 1..Len(getAlbumPhotos(lsAlbumPhotos, albumId)) :
                    getAlbumPhotos(lsAlbumPhotos, albumId)[i] # flow.deleted[j]

(* C20: the delete flow is "delete the photo, then scrub its associations": *)
(* the scrub runs only after deletePhoto succeeded for that photo, and once *)
(* handlePhotoDelete or handleDeleteSelected has completed successfully for *)
(* a photo no persisted association of any album references it.             *)
C20_DeleteThenScrub == C20_ScrubOnlyAfterDelete /\ C20_NoAssociationLeft

----------------------------------------------------------------------------
(* SpecGalleryFair: SpecGallery with every step that the event loop or a   *)
(* platform request is bound to take (effects, reads, transactions, the    *)
(* reload timer) weakly fair.  Calls by the user and renders are not.      *)

FairGallery ==
    /\ WF_vars(Mount) /\ WF_vars(InitCount) /\ WF_vars(InitLoadPage)
    /\ WF_vars(LoadMoreFetch) /\ WF_vars(LoadMoreResume)
    /\ WF_vars(UploadRead) /\ WF_vars(UploadDecode)
    /\ WF_vars(UploadThumbnail) /\ WF_vars(UploadSave)
    /\ WF_vars(DeletePhotoDone) /\ WF_vars(ClearAllPhotosDone)
    /\ WF_vars(HardResetDone) /\ WF_vars(Reload)

SpecGalleryFair == SpecGallery /\ FairGallery

(* hardReset is waiting in resetDB while the module holds an open handle *)
HardResetOnOpenDb ==
    db /\ \E i \in 1..Len(opTasks) : opTasks[i].op = "hardReset"

(* hardReset has gone through: database destroyed, handle cleared, state   *)
(* reset, reload scheduled                                                 *)
HardResetCompleted ==
    /\ lastCall.op = "hardReset" /\ ~lastCall.failed
    /\ ~db /\ photos = <<>> /\ thumbs = <<>>
    /\ uploadedPhotos = <<>> /\ totalCount = 0 /\ currentPage = 0
    /\ error = "null"
    /\ reloadPending

(* C21: a hardReset called while a database handle is open and cached      *)
(* eventually completes (database destroyed, handle cleared, facade state  *)
(* reset, reload scheduled); it does not wait forever on that handle.      *)
C21_HardResetCompletes == HardResetOnOpenDb ~> HardResetCompleted

----------------------------------------------------------------------------
(* Claims about the pagination cursor and the window of the hook *)

(* C22: the cursor is forward-only.  currentPage goes up by exactly 1 when *)
(* a loadMore resumes with at least one record, stays when a load returned *)
(* nothing and when uploadPhoto or deletePhoto settles, and goes down only *)
(* by the reset to 0 of clearAllPhotos or hardReset; the initial load does *)
(* not move it backwards.                                                  *)
C22_CursorForwardOnly ==
    [][ /\ currentPage' < currentPage =>
              /\ currentPage' = 0
              /\ ClearAllPhotosDone \/ HardResetDone \/ Reload
        /\ (LoadMoreResume /\ Len(lmTasks[1].newPhotos) > 0) =>
              currentPage' = currentPage + 1
        /\ (LoadMoreResume /\ Len(lmTasks[1].newPhotos) = 0) =>
              currentPage' = currentPage
        /\ (UploadRead \/ UploadDecode \/ UploadThumbnail \/ UploadSave
                \/ DeletePhotoDone) =>
              currentPage' = currentPage ]_vars

----------------------------------------------------------------------------
(* SpecAlbums: the albums page (Albums.tsx) over useAlbumsLocal and the    *)
(* album index: photos are put into albums and albums are deleted.         *)

(* JSON.stringify / JSON.parse of Album[], an album reduced to its id *)
albumsToJSON(list) == [i \in 1..Len(list) |-> <<list[i]>>]

albumsFromJSON(text) == [i \in 1..Len(text) |-> text[i][1]]

(* loadAlbums: the parsed item, [] when there is none *)
loadAlbums(ls) == IF ls.present THEN albumsFromJSON(ls.text) ELSE <<>>

(* saveAlbums: setItem inside try/catch, a throwing setItem is only logged *)
saveAlbums(ls, list, throws) ==
    IF throws THEN ls ELSE [present |-> TRUE, text |-> albumsToJSON(list)]

(* both albums were created and saved before the page is opened *)
StoredAlbums == saveAlbums(NullItem, <<"A", "B">>, FALSE)

(* handleDeleteAlbum: deleteAlbum.mutate(id, {onSuccess}).  deleteAlbum    *)
(* filters the albums of its render, sets and saves them and cannot fail;  *)
(* its promise has no real await in it, so onSuccess                       *)
(* (removeAllPhotosFromAlbum(id)) runs before any other event.             *)
HandleDeleteAlbumOf(id) ==
    \E throwsAlbums \in BOOLEAN, throws \in BOOLEAN :
        /\ \E i \in 1..Len(albumsView) : albumsView[i] = id
        /\ albums' = Without(albumsView, id)
        /\ lsAlbums' = saveAlbums(lsAlbums, Without(albumsView, id), throwsAlbums)
        /\ lsAlbumPhotos' = removeAllPhotosFromAlbum(lsAlbumPhotos, id, throws)
        /\ lastAlbumOp' = [op |-> "removeAll", albumId |-> id, photoId |-> 0,
                           photoIds |-> <<>>, now |-> 0, persisted |-> ~throws,
                           hadOther |-> getAlbumPhotoCount(lsAlbumPhotos, id) > 0]
        /\ UNCHANGED <<storeVars, opVars, pageVars, facadeVars, callVars, openVars,
                       flow, moreVars, albumsView>>

HandleDeleteAlbum == \E id \in AlbumIds : HandleDeleteAlbumOf(id)

(* the albums page renders again over the current albums *)
RenderAlbums ==
    /\ albumsView # albums
    /\ albumsView' = albums
    /\ UNCHANGED <<storeVars, opVars, pageVars, albumVars, facadeVars, callVars,
                   openVars, flow, moreVars, albums, lsAlbums>>

(* photos are put into an album the page shows (all at one time of day: *)
(* addedAt plays no part in a deletion)                                  *)
AddPhotosToShownAlbum ==
    \E albumId \in AlbumIds, photoIds \in PhotoIdLists, throws \in BOOLEAN :
        /\ \E i \in 1..Len(albumsView) : albumsView[i] = albumId
        /\ AddPhotosToAlbumCall(albumId, photoIds, 1, throws)

InitAlbums ==
    /\ idbOk = TRUE /\ db = FALSE /\ photos = <<>> /\ thumbs = <<>>
    /\ OpInit /\ PageIdle /\ AlbumInit /\ HookInit
    /\ CallInit /\ OpenInit /\ FlowInit /\ MoreInit
    /\ lsAlbums = StoredAlbums
    /\ albums = loadAlbums(StoredAlbums)
    /\ albumsView = loadAlbums(StoredAlbums)

NextAlbums ==
    \/ AddPhotosToShownAlbum
    \/ HandleDeleteAlbum
    \/ RenderAlbums

SpecAlbums == InitAlbums /\ [][NextAlbums]_vars

(* C23: when an album is deleted through the albums page and the write of  *)
(* the index reaches localStorage, no association of that album is left    *)
(* (getAlbumPhotos is empty, getPhotoCount is 0) and the associations of   *)
(* every other album are as they were; a write that throws leaves the      *)
(* index as it was.                                                        *)
C23_DeleteAlbumScrubs ==
    [][ \A id \in AlbumIds :
          HandleDeleteAlbumOf(id) =>
              IF lastAlbumOp'.persisted
              THEN /\ getAlbumPhotos(lsAlbumPhotos', id) = <<>>
                   /\ getAlbumPhotoCount(lsAlbumPhotos', id) = 0
                   /\ \A b \in AlbumIds \ {id} :
                         EntriesOf(lsAlbumPhotos', b) = EntriesOf(lsAlbumPhotos, b)
              ELSE lsAlbumPhotos' = lsAlbumPhotos ]_vars

(* album A, which held photos, was deleted and scrubbed while album B *)
(* keeps its associations                                             *)
C23_Witness ==
    /\ lastAlbumOp.op = "removeAll" /\ lastAlbumOp.albumId = "A"
    /\ lastAlbumOp.persisted /\ lastAlbumOp.hadOther
    /\ albums = <<"B">>
    /\ getAlbumPhotoCount(lsAlbumPhotos, "A") = 0
    /\ getAlbumPhotoCount(lsAlbumPhotos, "B") > 0

(* the hook is initialized and nothing is in flight *)
FacadeIdle ==
    initPc = "done" /\ isInitialized /\ lmTasks = <<>> /\ InFlight = 0 /\ ~reloadPending

(* C24: on an initialized facade with no operation in flight the in-memory *)
(* list holds no photo id twice; an upload made while pages remain,        *)
(* followed by a loadMore, appends no photo that is already listed.        *)
C24_NoDuplicateIds ==
    FacadeIdle =>
        \A i, j \in 1..Len(uploadedPhotos) :
            i # j => uploadedPhotos[i].id # uploadedPhotos[j].id

----------------------------------------------------------------------------
(* SpecSerial: the hook used one operation at a time.  Every call is made  *)
(* through the current render, after the initial load and after the        *)
(* previous operation has settled.                                         *)

SerialCounts    == {2, PAGE_SIZE + 2}
(* stored but on the second page; the newest of the first page; not stored *)
(* until the first upload                                                  *)
SerialDeleteIds == {1, PAGE_SIZE + 2, MaxStored + 1}

Quiet == Ready /\ view = Current /\ lmTasks = <<>> /\ InFlight = 0

SerialCall ==
    /\ Quiet
    /\ \/ UploadPhotoOf(GalleryFile)
       \/ \E id \in SerialDeleteIds : DeletePhotoOf(id)
       \/ ClearAllPhotosCall

SerialLoadMore == Quiet /\ LoadMoreCall

InitSerial ==
    /\ idbOk = TRUE
    /\ db = FALSE
    /\ \E n \in SerialCounts :
          photos = UploadedStore(n) /\ thumbs = UploadedThumbs(n)
    /\ OpInit /\ PageIdle /\ AlbumInit /\ HookInit /\ ExtInit

NextSerial ==
    \/ Mount
    \/ InitCount
    \/ InitLoadPage
    \/ Render
    \/ SerialLoadMore
    \/ LoadMoreFetch
    \/ LoadMoreResume
    \/ SerialCall
    \/ UploadRead
    \/ UploadDecode
    \/ UploadThumbnail
    \/ UploadSave
    \/ DeletePhotoDone
    \/ ClearAllPhotosDone

SpecSerial == InitSerial /\ [][NextSerial]_vars

IdsOf(list) == {list[i].id : i \in 1..Len(list)}

(* C25: whenever the facade is idle with hasMore false, the ids of the     *)
(* in-memory list are the ids of the store; deleting a loaded photo while  *)
(* pages remain and loading on does not skip a stored photo.               *)
C25_ListCoversStore ==
    (FacadeIdle /\ ~hasMore) => IdsOf(uploadedPhotos) = IdsOf(photos)

(* C26: whenever the initialized facade is idle, totalCount is the number  *)
(* of photos in the store; deletePhoto of an id that is not stored leaves  *)
(* it unchanged and it is never negative.                                  *)
C26_TotalCountIsStoreCount ==
    FacadeIdle => (totalCount = Len(photos) /\ totalCount >= 0)

(* C27: whenever no operation is in flight every photo of the in-memory    *)
(* list is in the store; after several deletePhoto calls issued from one   *)
(* render (handleDeleteSelected) each deleted photo is gone from the list. *)
C27_ListedPhotosAreStored ==
    (FacadeIdle /\ flow.pc # "deleting") =>
        /\ IdsOf(uploadedPhotos) \subseteq IdsOf(photos)
        /\ \A j \in 1..Len(flow.deleted) : flow.deleted[j] \notin IdsOf(uploadedPhotos)

----------------------------------------------------------------------------
(* SpecEarly: loadMore is triggered while the initial load of the hook is  *)
(* still under way (hasMore starts true and loadMore does not wait for     *)
(* isInitialized); the two finish in either order.                         *)

EarlyLoadMore == initPc # "done" /\ LoadMoreCall

NextEarly ==
    \/ Mount
    \/ InitCount
    \/ InitLoadPage
    \/ Render
    \/ EarlyLoadMore
    \/ LoadMoreFetch
    \/ LoadMoreResume

SpecEarly == Init /\ [][NextEarly]_vars

(* C28: once the initial load and a loadMore triggered before its end have *)
(* both finished, the list is a duplicate-free prefix of the store in      *)
(* date-descending order of the length currentPage stands for, totalCount  *)
(* is the store count and hasMore is true while stored photos are unloaded *)
C28_EarlyLoadMoreKeepsWindow ==
    (idbOk /\ initPc = "done" /\ lmTasks = <<>> /\ nCalls >= 1) =>
        LET N == Len(photos)
        IN  /\ IsDateOrderPrefix(uploadedPhotos, photos,
                                 Min((currentPage + 1) * PAGE_SIZE, N))
            /\ totalCount = N
            /\ Len(uploadedPhotos) < N => hasMore

----------------------------------------------------------------------------
(* SpecTwo: two usePhotos instances mounted at the same time over the one  *)
(* store (the sidebar's and the photos page's).  The operations go through *)
(* the first instance; `peer` is the state of the second, which runs the   *)
(* same init effect and is given nothing else.                             *)

TwoCounts == {2, PAGE_SIZE + 1}

(* init() of the second instance, up to its first await *)
PeerMount ==
    /\ peer.initPc = "mount"
    /\ peer' = [peer EXCEPT !.initPc = "count", !.error = "null"]
    /\ UNCHANGED <<storeVars, opVars, pageVars, albumVars, facadeVars, callVars,
                   openVars, flow, listVars, flat>>

(* init() of the second instance: getPhotoCount resolves *)
PeerInitCount ==
    /\ peer.initPc = "count"
    /\ LET r == getPhotoCount(db, idbOk, photos)
       IN  /\ db' = r.db
           /\ peer' = [peer EXCEPT !.initPc = "page", !.totalCount = r.value,
                                   !.initCount = r.value]
    /\ UNCHANGED <<idbOk, photos, thumbs, opVars, pageVars, albumVars, facadeVars,
                   callVars, openVars, flow, listVars, flat>>

(* init() of the second instance: the first page arrives *)
PeerInitLoadPage ==
    /\ peer.initPc = "page"
    /\ LET r == loadPhotosPaginated(db, idbOk, photos, 0, PAGE_SIZE)
       IN  /\ db' = r.db
           /\ peer' = [peer EXCEPT !.initPc = "done", !.uploadedPhotos = r.value,
                                   !.currentPage = 0,
                                   !.hasMore = (PAGE_SIZE < peer.initCount),
                                   !.isInitialized = TRUE]
    /\ UNCHANGED <<idbOk, photos, thumbs, opVars, pageVars, albumVars, facadeVars,
                   callVars, openVars, flow, listVars, flat>>

BothReady == Ready /\ peer.initPc = "done"

(* an operation through the first instance, both being initialized *)
TwoCall ==
    /\ BothReady
    /\ view = Current
    /\ \/ UploadPhotoOf(GalleryFile)
       \/ DeletePhotoOf(1)
       \/ ClearAllPhotosCall

InitTwo ==
    /\ idbOk = TRUE
    /\ db = FALSE
    /\ \E n \in TwoCounts :
          photos = UploadedStore(n) /\ thumbs = UploadedThumbs(n)
    /\ OpInit /\ PageIdle /\ AlbumInit /\ HookInit /\ ExtInit

NextTwo ==
    \/ Mount
    \/ InitCount
    \/ InitLoadPage
    \/ PeerMount
    \/ PeerInitCount
    \/ PeerInitLoadPage
    \/ Render
    \/ TwoCall
    \/ UploadRead
    \/ UploadDecode
    \/ UploadThumbnail
    \/ UploadSave
    \/ DeletePhotoDone
    \/ ClearAllPhotosDone

SpecTwo == InitTwo /\ [][NextTwo]_vars

(* C29: with two instances mounted, an upload, delete or clear that        *)
(* succeeded through one of them shows in the other's list and totalCount. *)
C29_PeerSeesChanges ==
    (FacadeIdle /\ peer.initPc = "done"
       /\ lastCall.op \in {"uploadPhoto", "deletePhoto", "clearAllPhotos"}
       /\ lastCall.result = "resolved") =>
        /\ IdsOf(peer.uploadedPhotos) = IdsOf(uploadedPhotos)
        /\ peer.totalCount = totalCount

----------------------------------------------------------------------------
(* SpecFlat: the flat key-value photo hook of usePhotos.tsx.  The photos   *)
(* are one JSON list under the localStorage key 'uploaded_photos'; a photo *)
(* is reduced to its id and its file name.                                 *)

MaxFlatFiles == 2   \* files given to one uploadMultiplePhotos call
MaxFlatCalls == 1   \* uploadMultiplePhotos calls in one behaviour

(* JSON.stringify / JSON.parse of Photo[] *)
photosToJSON(list) == [i \in 1..Len(list) |-> <<list[i].id, list[i].alt>>]

photosFromJSON(text) == [i \in 1..Len(text) |-> [id |-> text[i][1], alt |-> text[i][2]]]

(* loadUploadedPhotos: the parsed item, [] when there is none *)
loadUploadedPhotos(ls) == IF ls.present THEN photosFromJSON(ls.text) ELSE <<>>

(* saveUploadedPhotos: setItem inside try/catch, a throwing setItem is logged *)
saveUploadedPhotos(ls, list, throws) ==
    IF throws THEN ls ELSE [present |-> TRUE, text |-> photosToJSON(list)]

FlatFiles ==
    {File("a.jpg", MiB, TRUE, TRUE, TRUE), File("b.jpg", MiB, TRUE, TRUE, TRUE),
     File("notes.txt", MiB, TRUE, FALSE, TRUE)}

FlatFileLists == {fs \in SeqsUpTo(FlatFiles, MaxFlatFiles) : Len(fs) > 0}

(* what the item holds before the page is opened *)
FlatStores == {NullItem, saveUploadedPhotos(NullItem, <<[id |-> 1, alt |-> "old.jpg"]>>, FALSE)}

FlatTask(file, list) == [pc |-> "reading", file |-> file, list |-> list]

(* uploadMultiplePhotos(files): fileArray.map(file => uploadPhoto(file)),   *)
(* every uploadPhoto being the one of the render that made the call, then  *)
(* Promise.all                                                             *)
FlatUploadMultiple ==
    \E files \in FlatFileLists :
        /\ flat.tasks = <<>>
        /\ flat.calls < MaxFlatCalls
        /\ flat' = [flat EXCEPT
              !.calls = flat.calls + 1,
              !.tasks = [i \in 1..Len(files) |-> FlatTask(files[i], flat.view)],
              !.before = IdsOf(flat.uploadedPhotos) \cup IdsOf(loadUploadedPhotos(flat.stored)),
              !.resolved = <<>>,
              !.failed = FALSE,
              !.written = TRUE]
        /\ UNCHANGED <<storeVars, opVars, pageVars, albumVars, facadeVars, callVars,
                       openVars, flow, listVars, peer>>

(* reader.onload starts the image decode; reader.onerror rejects *)
FlatRead ==
    \E i \in 1..Len(flat.tasks) :
        /\ flat.tasks[i].pc = "reading"
        /\ IF flat.tasks[i].file.readable
           THEN flat' = [flat EXCEPT !.tasks[i].pc = "decoding"]
           ELSE flat' = [flat EXCEPT !.tasks = RemoveAt(flat.tasks, i), !.failed = TRUE]
        /\ UNCHANGED <<storeVars, opVars, pageVars, albumVars, facadeVars, callVars,
                       openVars, flow, listVars, peer>>

(* img.onload: updated = [...uploadedPhotos, newPhoto] over the list the   *)
(* call captured, setUploadedPhotos(updated), saveUploadedPhotos(updated), *)
(* resolve(newPhoto); img.onerror rejects                                  *)
FlatDecode ==
    \E i \in 1..Len(flat.tasks), throws \in BOOLEAN :
        LET t        == flat.tasks[i]
            photo    == [id |-> flat.clock, alt |-> t.file.name]
            updated  == Append(t.list, photo)
        IN  /\ t.pc = "decoding"
            /\ IF t.file.image
               THEN flat' = [flat EXCEPT
                       !.uploadedPhotos = updated,
                       !.stored = saveUploadedPhotos(flat.stored, updated, throws),
                       !.clock = flat.clock + 1,
                       !.resolved = Append(flat.resolved, photo.id),
                       !.written = flat.written /\ ~throws,
                       !.tasks = RemoveAt(flat.tasks, i)]
               ELSE /\ ~throws
                    /\ flat' = [flat EXCEPT !.tasks = RemoveAt(flat.tasks, i),
                                            !.failed = TRUE]
            /\ UNCHANGED <<storeVars, opVars, pageVars, albumVars, facadeVars, callVars,
                           openVars, flow, listVars, peer>>

(* a re-render: the hook's functions are created anew over the list *)
FlatRender ==
    /\ flat.view # flat.uploadedPhotos
    /\ flat' = [flat EXCEPT !.view = flat.uploadedPhotos]
    /\ UNCHANGED <<storeVars, opVars, pageVars, albumVars, facadeVars, callVars,
                   openVars, flow, listVars, peer>>

(* useState(loadUploadedPhotos()) and the mount effect over the item *)
FlatOver(ls) ==
    [stored |-> ls, uploadedPhotos |-> loadUploadedPhotos(ls),
     view |-> loadUploadedPhotos(ls), tasks |-> <<>>, calls |-> 0,
     clock |-> 2, before |-> {}, resolved |-> <<>>, failed |-> FALSE,
     written |-> TRUE]

InitFlat ==
    /\ idbOk = TRUE /\ db = FALSE /\ photos = <<>> /\ thumbs = <<>>
    /\ OpInit /\ PageIdle /\ AlbumInit /\ HookInit
    /\ CallInit /\ OpenInit /\ FlowInit /\ ListInit
    /\ peer = NoPeer
    /\ \E ls \in FlatStores : flat = FlatOver(ls)

NextFlat ==
    \/ FlatUploadMultiple
    \/ FlatRead
    \/ FlatDecode
    \/ FlatRender

SpecFlat == InitFlat /\ [][NextFlat]_vars

(* C30: when an uploadMultiplePhotos of valid image files has finished and *)
(* every write went through, all its new photos and every photo stored     *)
(* before are in the persisted list and in the in-memory list.             *)
C30_ConcurrentUploadsAllKept ==
    (flat.calls > 0 /\ flat.tasks = <<>> /\ ~flat.failed /\ flat.written) =>
        LET new == {flat.resolved[i] : i \in 1..Len(flat.resolved)}
        IN  /\ (new \cup flat.before) \subseteq IdsOf(loadUploadedPhotos(flat.stored))
            /\ (new \cup flat.before) \subseteq IdsOf(flat.uploadedPhotos)
====
